---- MODULE Spec2Model ----
(***************************************************************************)
(* A model of the IPDR analysis engine:                                    *)
(*   - IPDRAnalyzer (src/src/core/ipdr_analyzer.py): parsing, column       *)
(*     normalisation, the relationship graph, communication patterns,      *)
(*     suspicious activities, entity search;                               *)
(*   - AdvancedFilteringSystem (src/src/utils/advanced_filtering.py):      *)
(*     relevance scoring, noise reduction, the filter pipeline, the        *)
(*     filter list and its configuration file.                             *)
(*                                                                         *)
(* Conventions.                                                            *)
(*   A DataFrame is [cols |-> set of column names, rows |-> sequence of    *)
(*   rows], a row being a function from the frame's columns to values.     *)
(*   A party value is [kind, text]: kind is the Python type of the cell    *)
(*   ("str" or "int"), text the characters str() gives, as a sequence of   *)
(*   one-character strings.  A timestamp is a number of hours since a      *)
(*   Monday 00:00; in the analyzer's frames it is tagged as the text read  *)
(*   from the file or the datetime made of it.  Scores are exact decimals  *)
(*   in thousandths (weights in hundredths times subscores in tenths).     *)
(***************************************************************************)
EXTENDS Integers, Sequences, FiniteSets, TLC

VARIABLES
    \* calculate_relevance_score applied to one row and one context
    s_row, s_ctx, s_score, s_pc,
    \* _apply_noise_reduction applied to a frame, then to its own output
    n_df, n_once, n_twice, n_pc,
    \* AdvancedFilteringSystem.filters and one call of apply_filters:
    \* the caller's frame (f_input is the frame as the caller built it), the
    \* context, df_clean, filtered_data before the sort, the two frames
    \* returned
    filters, caller_df, f_input, f_context, f_clean, f_unsorted, f_kept, f_removed, f_pc,
    \* the last call that edited, saved or loaded the filter list with its
    \* argument and what it returned; the content of the configuration file;
    \* the filter list as it was at the last save that returned True
    f_call, config_file, saved_filters,
    \* the two frames apply_filters returns when it is called again on the
    \* kept frame it returned, with the same context
    f_again,
    \* IPDRAnalyzer: self.data, self.network_graph, what the last call of
    \* parse_ipdr_file returned, the last method called, the number of calls
    \* made and the number of runs of extract_relationships over loaded data
    data, network_graph, parse_result, a_last, a_calls, a_runs,
    \* self.communication_patterns, self.suspicious_activities and what the
    \* last call of search_entity returned
    communication_patterns, suspicious_activities, search_result

score_vars == <<s_row, s_ctx, s_score, s_pc>>
noise_vars == <<n_df, n_once, n_twice, n_pc>>
config_vars == <<f_call, config_file, saved_filters>>
filter_vars == <<filters, caller_df, f_input, f_context, f_clean, f_unsorted, f_kept, f_removed, f_pc,
                 f_call, config_file, saved_filters, f_again>>

analyzer_vars == <<data, network_graph, parse_result, a_last, a_calls, a_runs,
                   communication_patterns, suspicious_activities, search_result>>

vars == <<s_row, s_ctx, s_score, s_pc, n_df, n_once, n_twice, n_pc,
          filters, caller_df, f_input, f_context, f_clean, f_unsorted, f_kept, f_removed, f_pc,
          f_call, config_file, saved_filters, f_again,
          data, network_graph, parse_result, a_last, a_calls, a_runs,
          communication_patterns, suspicious_activities, search_result>>

----------------------------------------------------------------------------
(* Cell values                                                             *)

\* NaN / NaT / None: what pd.notna rejects.
NaN == -1
\* A cell of the wrong Python type for its column (a non-numeric string in
\* a numeric column, an unparseable timestamp string, a non-string service).
BadValue == -2
NonStrService == "<non-str>"
NoService == "<NaN>"

Has(f, k) == k \in DOMAIN f

\* The context map; None and {} are both falsy and are the empty map.
NoContext == <<>>

----------------------------------------------------------------------------
(* Relevance scoring                                                       *)

W_duration == 15
W_frequency == 25
W_timing == 20
W_geographic == 15
W_service_type == 10
W_risk_score == 15

Hour(ts) == ts % 24
Weekday(ts) == (ts \div 24) % 7

\* _calculate_duration_score, in tenths
CalculateDurationScore(duration) ==
    IF duration < 1 THEN 3
    ELSE IF duration < 30 THEN 6
    ELSE IF duration < 300 THEN 10
    ELSE IF duration < 1800 THEN 8
    ELSE 4

\* _calculate_frequency_score, in tenths
CalculateFrequencyScore(frequency) ==
    IF frequency = 1 THEN 5
    ELSE IF frequency <= 5 THEN 7
    ELSE IF frequency <= 20 THEN 10
    ELSE IF frequency <= 100 THEN 8
    ELSE 6

\* _calculate_timing_score, in tenths; its own handler answers 0.5
CalculateTimingScore(timestamp) ==
    IF timestamp = BadValue THEN 5
    ELSE IF 22 <= Hour(timestamp) \/ Hour(timestamp) <= 6 THEN 10
    ELSE IF Weekday(timestamp) >= 5 THEN 8
    ELSE IF 9 <= Hour(timestamp) /\ Hour(timestamp) <= 17 THEN 6
    ELSE 7

Min(a, b) == IF a <= b THEN a ELSE b
Max(a, b) == IF a >= b THEN a ELSE b

\* _calculate_geographic_score, in tenths
CalculateGeographicScore(geo_context) ==
    LET base == 5
        dist == IF Has(geo_context, "distance_km")
                THEN (IF geo_context["distance_km"] > 1000 THEN 3
                      ELSE IF geo_context["distance_km"] > 100 THEN 2
                      ELSE 1)
                ELSE 0
        cross == IF Has(geo_context, "cross_border") /\ geo_context["cross_border"]
                 THEN 2 ELSE 0
        intl == IF Has(geo_context, "international") /\ geo_context["international"]
                THEN 3 ELSE 0
    IN  Min(base + dist + cross + intl, 10)

\* str.upper() on the service names of the model
Upper(s) ==
    CASE s = "voice" -> "VOICE"
      [] s = "sms" -> "SMS"
      [] OTHER -> s

\* _calculate_service_score, in tenths
CalculateServiceScore(service_type) ==
    LET u == Upper(service_type)
    IN  CASE u = "VOICE" -> 10
          [] u = "SMS" -> 9
          [] u = "MMS" -> 8
          [] u = "DATA" -> 6
          [] u = "ROAMING" -> 7
          [] OTHER -> 5

\* _calculate_risk_score_relevance, in tenths
CalculateRiskScoreRelevance(risk_score) ==
    IF risk_score >= 80 THEN 10
    ELSE IF risk_score >= 60 THEN 8
    ELSE IF risk_score >= 40 THEN 6
    ELSE IF risk_score >= 20 THEN 4
    ELSE 2

\* The feature guards of calculate_relevance_score
UsesDuration(row) == Has(row, "duration") /\ row["duration"] # NaN
UsesFrequency(context) == Has(context, "entity_frequency")
UsesTiming(row) == Has(row, "timestamp") /\ row["timestamp"] # NaN
UsesGeographic(context) == Has(context, "geographic_context")
UsesService(row) == Has(row, "service_type") /\ row["service_type"] # NoService
UsesRisk(context) == Has(context, "risk_score")

\* A Python exception inside the try block of calculate_relevance_score:
\* an ordering comparison of a non-number (duration, frequency, distance,
\* risk score) or .upper() of a non-string.
ScoreRaises(row, context) ==
    \/ UsesDuration(row) /\ row["duration"] = BadValue
    \/ UsesFrequency(context) /\ context["entity_frequency"] = BadValue
    \/ UsesGeographic(context)
         /\ Has(context["geographic_context"], "distance_km")
         /\ context["geographic_context"]["distance_km"] = BadValue
    \/ UsesService(row) /\ row["service_type"] = NonStrService
    \/ UsesRisk(context) /\ context["risk_score"] = BadValue

\* Mutant: the sum renormalised by the weights of the features in use.
WeightedSum_Renormalised(row, context) ==
    LET used == (IF UsesDuration(row) THEN W_duration ELSE 0)
              + (IF UsesFrequency(context) THEN W_frequency ELSE 0)
              + (IF UsesTiming(row) THEN W_timing ELSE 0)
              + (IF UsesGeographic(context) THEN W_geographic ELSE 0)
              + (IF UsesService(row) THEN W_service_type ELSE 0)
              + (IF UsesRisk(context) THEN W_risk_score ELSE 0)
        total == (IF UsesDuration(row)
                  THEN CalculateDurationScore(row["duration"]) * W_duration ELSE 0)
               + (IF UsesFrequency(context)
                  THEN CalculateFrequencyScore(context["entity_frequency"]) * W_frequency ELSE 0)
               + (IF UsesTiming(row)
                  THEN CalculateTimingScore(row["timestamp"]) * W_timing ELSE 0)
               + (IF UsesGeographic(context)
                  THEN CalculateGeographicScore(context["geographic_context"]) * W_geographic ELSE 0)
               + (IF UsesService(row)
                  THEN CalculateServiceScore(row["service_type"]) * W_service_type ELSE 0)
               + (IF UsesRisk(context)
                  THEN CalculateRiskScoreRelevance(context["risk_score"]) * W_risk_score ELSE 0)
    IN  IF used = 0 THEN 0 ELSE (total * 100) \div used

\* The weighted sum, in thousandths
WeightedSum(row, context) ==
      (IF UsesDuration(row)
       THEN CalculateDurationScore(row["duration"]) * W_duration ELSE 0)
    + (IF UsesFrequency(context)
       THEN CalculateFrequencyScore(context["entity_frequency"]) * W_frequency ELSE 0)
    + (IF UsesTiming(row)
       THEN CalculateTimingScore(row["timestamp"]) * W_timing ELSE 0)
    + (IF UsesGeographic(context)
       THEN CalculateGeographicScore(context["geographic_context"]) * W_geographic ELSE 0)
    + (IF UsesService(row)
       THEN CalculateServiceScore(row["service_type"]) * W_service_type ELSE 0)
    + (IF UsesRisk(context)
       THEN CalculateRiskScoreRelevance(context["risk_score"]) * W_risk_score ELSE 0)

ScoreOne == 1000

\* min(max(score, 0.0), 1.0)
Clamp(score) == Min(Max(score, 0), ScoreOne)

\* Mutant: no handler, the call gives no score when a feature raises.
CalculateRelevanceScore_Unhandled(row, context) ==
    IF ScoreRaises(row, context) THEN BadValue
    ELSE Clamp(WeightedSum(row, context))

\* calculate_relevance_score, in thousandths
CalculateRelevanceScore(row, context) ==
    IF ScoreRaises(row, context) THEN 0
    ELSE Clamp(WeightedSum(row, context))

----------------------------------------------------------------------------
(* Strings: a text is a sequence of one-character strings                  *)

\* str.lower() of one character (case=False matching)
LowerOf ==
    [c \in {"A","B","C","D","E","F","G","H","I","J","K","L","M",
            "N","O","P","Q","R","S","T","U","V","W","X","Y","Z"} |->
        CASE c = "A" -> "a" [] c = "B" -> "b" [] c = "C" -> "c" [] c = "D" -> "d"
          [] c = "E" -> "e" [] c = "F" -> "f" [] c = "G" -> "g" [] c = "H" -> "h"
          [] c = "I" -> "i" [] c = "J" -> "j" [] c = "K" -> "k" [] c = "L" -> "l"
          [] c = "M" -> "m" [] c = "N" -> "n" [] c = "O" -> "o" [] c = "P" -> "p"
          [] c = "Q" -> "q" [] c = "R" -> "r" [] c = "S" -> "s" [] c = "T" -> "t"
          [] c = "U" -> "u" [] c = "V" -> "v" [] c = "W" -> "w" [] c = "X" -> "x"
          [] c = "Y" -> "y" [] c = "Z" -> "z"]

LowerChar(c) == IF c \in DOMAIN LowerOf THEN LowerOf[c] ELSE c

\* Series.str.contains(pattern, case=False): the pattern occurs somewhere
ContainsNoCase(text, pattern) ==
    \E i \in 1..(Len(text) - Len(pattern) + 1) :
        \A j \in 1..Len(pattern) : LowerChar(text[i + j - 1]) = LowerChar(pattern[j])

\* The text begins with the prefix (a match anchored at the start)
StartsWith(text, prefix) ==
    /\ Len(text) >= Len(prefix)
    /\ \A j \in 1..Len(prefix) : text[j] = prefix[j]

\* A cell of a party column: a Python str or a Python int
StrCell(text) == [kind |-> "str", text |-> text]
IntCell(text) == [kind |-> "int", text |-> text]

\* str(value), .astype(str)
Str(cell) == cell.text

----------------------------------------------------------------------------
(* DataFrames                                                              *)

Frame(cols, rows) == [cols |-> cols, rows |-> rows]

\* pd.DataFrame()
EmptyFrame == Frame({}, <<>>)

\* df.empty
IsEmpty(df) == Len(df.rows) = 0 \/ df.cols = {}

\* df[mask]: the rows satisfying Keep, in order
Select(rows, Keep(_)) == SelectSeq(rows, Keep)

\* The row restricted to some of its columns
Project(row, cols) == [c \in (cols \cap DOMAIN row) |-> row[c]]

\* The row with one more (or one replaced) column
WithColumn(row, col, value) ==
    [c \in (DOMAIN row \cup {col}) |-> IF c = col THEN value ELSE row[c]]

\* df.drop(col, axis=1) on one row
WithoutColumn(row, col) == [c \in (DOMAIN row \ {col}) |-> row[c]]

----------------------------------------------------------------------------
(* The variables of a component that a specification does not exercise     *)

\* self.data before any file is parsed
None == [none |-> TRUE]

\* nx.Graph(): edges maps the set of the two end nodes of an edge to the
\* attributes of the edge
EmptyGraph == [nodes |-> {}, edges |-> <<>>]

\* {}: self.communication_patterns of __init__, search_entity without data
EmptyDict == [empty |-> TRUE]

AnalyzerIdle ==
    /\ data = None
    /\ network_graph = EmptyGraph
    /\ communication_patterns = EmptyDict
    /\ suspicious_activities = <<>>
    /\ search_result = None
    /\ parse_result = "none"
    /\ a_last = "idle"
    /\ a_calls = 0
    /\ a_runs = 0

NoiseIdle ==
    /\ n_df = EmptyFrame
    /\ n_once = EmptyFrame
    /\ n_twice = EmptyFrame
    /\ n_pc = "idle"

\* No call on the filter list yet; no file at the path of the configuration;
\* nothing saved
NoCall == [op |-> "none", arg |-> "", returned |-> "None"]
MissingFile == [kind |-> "missing", filters |-> <<>>]
NotSaved == [written |-> FALSE, filters |-> <<>>]

ConfigIdle ==
    /\ f_call = NoCall
    /\ config_file = MissingFile
    /\ saved_filters = NotSaved

FilterIdle ==
    /\ ConfigIdle
    /\ f_again = [filtered |-> EmptyFrame, removed |-> EmptyFrame]
    /\ filters = <<>>
    /\ caller_df = EmptyFrame
    /\ f_input = EmptyFrame
    /\ f_context = NoContext
    /\ f_clean = EmptyFrame
    /\ f_unsorted = EmptyFrame
    /\ f_kept = EmptyFrame
    /\ f_removed = EmptyFrame
    /\ f_pc = "idle"

----------------------------------------------------------------------------
(* Noise reduction                                                         *)

\* noise_reduction_config
NoisePatterns ==
    { <<"t","e","s","t">>, <<"d","e","m","o">>,
      <<"s","a","m","p","l","e">>, <<"e","x","a","m","p","l","e">>,
      <<"0","0","0","0","0","0","0","0","0","0">>,
      <<"1","1","1","1","1","1","1","1","1","1">>,
      <<"9","9","9","9","9","9","9","9","9","9">> }
MinDurationThreshold == 1
MaxDurationThreshold == 3600
ValidServiceTypes == {"VOICE", "SMS", "DATA", "MMS"}
ExcludePrivateIps == TRUE

KeyColumns == {"a_party", "b_party", "timestamp", "duration", "service_type"}

\* Mutant: a row is dropped only when it repeats the row just before it.
RemoveDuplicates_AdjacentOnly(df) ==
    LET available == KeyColumns \cap df.cols
        keep == {i \in 1..Len(df.rows) :
                    i = 1 \/ Project(df.rows[i - 1], available) # Project(df.rows[i], available)}
        KeptAt(i) == i \in keep
        idx == SelectSeq([i \in 1..Len(df.rows) |-> i], KeptAt)
    IN  IF available = {} THEN df
        ELSE Frame(df.cols, [k \in 1..Len(idx) |-> df.rows[idx[k]]])

\* _remove_duplicates: drop_duplicates(subset=available_columns, keep='first')
RemoveDuplicates(df) ==
    LET available == KeyColumns \cap df.cols
        keep == {i \in 1..Len(df.rows) :
                    \A j \in 1..(i - 1) :
                        Project(df.rows[j], available) # Project(df.rows[i], available)}
        KeptAt(i) == i \in keep
        idx == SelectSeq([i \in 1..Len(df.rows) |-> i], KeptAt)
    IN  IF available = {} THEN df
        ELSE Frame(df.cols, [k \in 1..Len(idx) |-> df.rows[idx[k]]])

\* The duration stage: a NaN compares False and is dropped with the rest
DurationInBounds(row) ==
    /\ row["duration"] # NaN
    /\ row["duration"] >= MinDurationThreshold
    /\ row["duration"] <= MaxDurationThreshold

FilterByDuration(df) ==
    IF "duration" \in df.cols
    THEN Frame(df.cols, Select(df.rows, DurationInBounds))
    ELSE df

\* The service-type stage: isin(valid_service_types), case-sensitive
ServiceIsValid(row) == row["service_type"] \in ValidServiceTypes

FilterByServiceType(df) ==
    IF "service_type" \in df.cols
    THEN Frame(df.cols, Select(df.rows, ServiceIsValid))
    ELSE df

\* _remove_noise_patterns
MatchesNoisePattern(row) ==
    \E pattern \in NoisePatterns :
        \E col \in {"a_party", "b_party"} \cap DOMAIN row :
            ContainsNoCase(Str(row[col]), pattern)

RemoveNoisePatterns(df) ==
    LET Clean(row) == ~MatchesNoisePattern(row)
    IN  Frame(df.cols, Select(df.rows, Clean))

\* The two digits of the second octet of 172.x. are 16..31
IsPrivate172(text) ==
    /\ StartsWith(text, <<"1","7","2",".">>)
    /\ Len(text) >= 7
    /\ \/ text[5] = "1" /\ text[6] \in {"6","7","8","9"}
       \/ text[5] = "2" /\ text[6] \in {"0","1","2","3","4","5","6","7","8","9"}
       \/ text[5] = "3" /\ text[6] \in {"0","1"}
    /\ text[7] = "."

\* str.match(r'^(10\.|172\.(1[6-9]|2[0-9]|3[0-1])\.|192\.168\.)')
IsPrivateIp(text) ==
    \/ StartsWith(text, <<"1","0",".">>)
    \/ IsPrivate172(text)
    \/ StartsWith(text, <<"1","9","2",".","1","6","8",".">>)

\* _apply_geographic_filters
ApplyGeographicFilters(df) ==
    LET Public(row) == ~IsPrivateIp(Str(row["b_party"]))
    IN  IF ExcludePrivateIps /\ "b_party" \in df.cols
        THEN Frame(df.cols, Select(df.rows, Public))
        ELSE df

\* The comparison of the duration column with a number raises when the
\* column holds a non-number.
NoiseReductionRaises(df) ==
    /\ "duration" \in df.cols
    /\ \E i \in 1..Len(df.rows) : df.rows[i]["duration"] = BadValue

\* _apply_noise_reduction
ApplyNoiseReduction(df) ==
    IF NoiseReductionRaises(df) THEN df
    ELSE ApplyGeographicFilters(
            RemoveNoisePatterns(
                FilterByServiceType(
                    FilterByDuration(
                        RemoveDuplicates(df)))))

----------------------------------------------------------------------------
(* Filter criteria                                                         *)

\* FilterCriteria; criteria is the dict as the sequence of its items
\* <<key, value>> in insertion order, weight is in tenths.
FilterCriteria(name, filter_type, priority, criteria, weight, description, is_active) ==
    [name |-> name, filter_type |-> filter_type, priority |-> priority,
     criteria |-> criteria, weight |-> weight, description |-> description,
     is_active |-> is_active]

\* key in criteria
HasKey(criteria, key) == \E i \in 1..Len(criteria) : criteria[i][1] = key

\* criteria[key]
Get(criteria, key) ==
    criteria[CHOOSE i \in 1..Len(criteria) : criteria[i][1] = key][2]

\* criteria.get(key, False) of a flag
Flag(criteria, key) == HasKey(criteria, key) /\ Get(criteria, key) = TRUE

\* The conditions of a custom filter
Scalar(value) == [test |-> "scalar", value |-> value]
Range(lo, hi) == [test |-> "range", min |-> lo, max |-> hi]
Values(set) == [test |-> "values", values |-> set]

\* _load_default_templates
TemplateNames ==
    <<"law_enforcement_critical", "suspicious_activity", "network_analysis",
      "time_based_analysis">>

FilterTemplate(template_name) ==
    CASE template_name = "law_enforcement_critical" ->
            FilterCriteria("Law Enforcement Critical", "risk_based", "critical",
                << <<"min_risk_score", 70>>, <<"suspicious_patterns", TRUE>>,
                   <<"high_frequency", TRUE>>, <<"late_night_activity", TRUE>> >>,
                20, "Critical filters for law enforcement investigations", TRUE)
      [] template_name = "suspicious_activity" ->
            FilterCriteria("Suspicious Activity", "pattern_based", "high",
                << <<"burner_phone_patterns", TRUE>>, <<"unusual_timing", TRUE>>,
                   <<"high_volume_communications", TRUE>> >>,
                15, "Detect suspicious communication patterns", TRUE)
      [] template_name = "network_analysis" ->
            FilterCriteria("Network Analysis", "frequency_based", "medium",
                << <<"min_connections", 5>>, <<"centrality_threshold", 3>>,
                   <<"cluster_detection", TRUE>> >>,
                10, "Focus on network analysis relevant data", TRUE)
      [] template_name = "time_based_analysis" ->
            FilterCriteria("Time-based Analysis", "time_based", "medium",
                << <<"peak_hours", TRUE>>, <<"weekend_activity", TRUE>>,
                   <<"holiday_patterns", TRUE>> >>,
                8, "Analyze temporal communication patterns", TRUE)

\* The active_filters property
ActiveFilters(filter_list) ==
    LET IsActive(f) == f.is_active
    IN  SelectSeq(filter_list, IsActive)

----------------------------------------------------------------------------
(* The filter stages: each gives [filtered |-> frame, removed |-> frame]   *)

StageResult(filtered, removed) == [filtered |-> filtered, removed |-> removed]

\* The handler of a stage: return df, pd.DataFrame()
PassThrough(df) == StageResult(df, EmptyFrame)

\* One (column, condition) item of a custom filter raises: a bound that is
\* no number is compared with a numeric column
ConditionRaises(condition) ==
    condition.test = "range" /\ (condition.min = BadValue \/ condition.max = BadValue)

\* An exception is raised inside the try block of the stage of this filter:
\* a threshold that is no number is divided or compared, or a condition of
\* a custom filter raises on a column of the frame.
FilterRaises(df, filter_obj) ==
    LET criteria == filter_obj.criteria
    IN  CASE filter_obj.filter_type = "risk_based" ->
                /\ HasKey(criteria, "min_risk_score")
                /\ "relevance_score" \in df.cols
                /\ Get(criteria, "min_risk_score") = BadValue
          [] filter_obj.filter_type = "frequency_based" ->
                /\ HasKey(criteria, "min_connections")
                /\ "a_party" \in df.cols
                /\ Get(criteria, "min_connections") = BadValue
          [] filter_obj.filter_type = "custom" ->
                \E i \in 1..Len(criteria) :
                    criteria[i][1] \in df.cols /\ ConditionRaises(criteria[i][2])
          [] OTHER -> FALSE

\* pd.concat([a, b], ignore_index=True): the union of the columns, a cell
\* that a frame lacks is NaN
Concat(a, b) ==
    LET cols == a.cols \cup b.cols
        Fill(row) == [c \in cols |-> IF c \in DOMAIN row THEN row[c] ELSE NaN]
        rows == a.rows \o b.rows
    IN  Frame(cols, [i \in 1..Len(rows) |-> Fill(rows[i])])

\* Mutant: the threshold is compared as it is written, not divided by 100.
ApplyRiskBasedFilter_ThresholdNotScaled(df, filter_obj) ==
    LET criteria == filter_obj.criteria
        Keep(row) == row["relevance_score"] >= Get(criteria, "min_risk_score") * 1000
        Drop(row) == ~Keep(row)
    IN  IF FilterRaises(df, filter_obj) THEN PassThrough(df)
        ELSE IF HasKey(criteria, "min_risk_score") /\ "relevance_score" \in df.cols
        THEN StageResult(Frame(df.cols, Select(df.rows, Keep)),
                         Frame(df.cols, Select(df.rows, Drop)))
        ELSE StageResult(df, EmptyFrame)

\* Mutant: the records of the highest score of the frame are kept.
ApplyRiskBasedFilter_KeepsTopScore(df, filter_obj) ==
    LET criteria == filter_obj.criteria
        Keep(row) == \A i \in 1..Len(df.rows) :
                        row["relevance_score"] >= df.rows[i]["relevance_score"]
        Drop(row) == ~Keep(row)
    IN  IF FilterRaises(df, filter_obj) THEN PassThrough(df)
        ELSE IF HasKey(criteria, "min_risk_score") /\ "relevance_score" \in df.cols
        THEN StageResult(Frame(df.cols, Select(df.rows, Keep)),
                         Frame(df.cols, Select(df.rows, Drop)))
        ELSE StageResult(df, EmptyFrame)

\* Mutant: the threshold is divided by 1000.
ApplyRiskBasedFilter_ThresholdPerMille(df, filter_obj) ==
    LET criteria == filter_obj.criteria
        Keep(row) == row["relevance_score"] >= Get(criteria, "min_risk_score")
        Drop(row) == ~Keep(row)
    IN  IF FilterRaises(df, filter_obj) THEN PassThrough(df)
        ELSE IF HasKey(criteria, "min_risk_score") /\ "relevance_score" \in df.cols
        THEN StageResult(Frame(df.cols, Select(df.rows, Keep)),
                         Frame(df.cols, Select(df.rows, Drop)))
        ELSE StageResult(df, EmptyFrame)

\* _apply_risk_based_filter; the score is in thousandths, the threshold in
\* hundredths
ApplyRiskBasedFilter(df, filter_obj) ==
    LET criteria == filter_obj.criteria
        Keep(row) == row["relevance_score"] >= Get(criteria, "min_risk_score") * 10
        Drop(row) == ~Keep(row)
    IN  IF FilterRaises(df, filter_obj) THEN PassThrough(df)
        ELSE IF HasKey(criteria, "min_risk_score") /\ "relevance_score" \in df.cols
        THEN StageResult(Frame(df.cols, Select(df.rows, Keep)),
                         Frame(df.cols, Select(df.rows, Drop)))
        ELSE StageResult(df, EmptyFrame)

\* len(set(str_val))
DistinctChars(text) == Cardinality({text[i] : i \in 1..Len(text)})

BurnerMinLength == 10
BurnerMaxDistinct == 3

\* Mutant: a value must be longer than ten characters and have fewer than
\* three distinct ones.
IsBurnerPattern_StrictBounds(cell) ==
    /\ Len(cell.text) > 10
    /\ Cardinality({cell.text[i] : i \in 1..Len(cell.text)}) < 3

\* is_burner_pattern
IsBurnerPattern(cell) ==
    /\ Len(Str(cell)) >= BurnerMinLength
    /\ DistinctChars(Str(cell)) <= BurnerMaxDistinct

\* _apply_pattern_based_filter
ApplyPatternBasedFilter(df, filter_obj) ==
    LET Burner(row) == IsBurnerPattern(row["b_party"])
        Plain(row) == ~Burner(row)
    IN  IF Flag(filter_obj.criteria, "burner_phone_patterns") /\ "b_party" \in df.cols
        THEN StageResult(Frame(df.cols, Select(df.rows, Plain)),
                         Concat(EmptyFrame, Frame(df.cols, Select(df.rows, Burner))))
        ELSE StageResult(df, EmptyFrame)

\* df['a_party'].value_counts()[party]
PartyCount(rows, party) ==
    Cardinality({i \in 1..Len(rows) : rows[i]["a_party"] = party})

\* Mutant: the records are counted per b_party.
ApplyFrequencyBasedFilter_CountsRecipients(df, filter_obj) ==
    LET criteria == filter_obj.criteria
        Count(party) == Cardinality({i \in 1..Len(df.rows) : df.rows[i]["b_party"] = party})
        Keep(row) == Count(row["b_party"]) >= Get(criteria, "min_connections")
        Drop(row) == ~Keep(row)
    IN  IF FilterRaises(df, filter_obj) THEN PassThrough(df)
        ELSE IF HasKey(criteria, "min_connections") /\ "a_party" \in df.cols
        THEN StageResult(Frame(df.cols, Select(df.rows, Keep)),
                         Frame(df.cols, Select(df.rows, Drop)))
        ELSE StageResult(df, EmptyFrame)

\* _apply_frequency_based_filter
ApplyFrequencyBasedFilter(df, filter_obj) ==
    LET criteria == filter_obj.criteria
        Keep(row) == PartyCount(df.rows, row["a_party"]) >= Get(criteria, "min_connections")
        Drop(row) == ~Keep(row)
    IN  IF FilterRaises(df, filter_obj) THEN PassThrough(df)
        ELSE IF HasKey(criteria, "min_connections") /\ "a_party" \in df.cols
        THEN StageResult(Frame(df.cols, Select(df.rows, Keep)),
                         Frame(df.cols, Select(df.rows, Drop)))
        ELSE StageResult(df, EmptyFrame)

PeakFirstHour == 9
PeakLastHour == 17

\* pd.to_datetime(..., errors='coerce') of one cell
CoerceTimestamp(ts) == IF ts = BadValue THEN NaN ELSE ts

\* .dt.hour of one cell (NaN for NaT)
HourCell(ts) == IF ts = NaN THEN NaN ELSE Hour(ts)

\* _apply_time_based_filter: the removed rows keep the helper column 'hour'
ApplyTimeBasedFilter(df, filter_obj) ==
    LET coerced == [i \in 1..Len(df.rows) |->
                      WithColumn(df.rows[i], "timestamp",
                                 CoerceTimestamp(df.rows[i]["timestamp"]))]
        hours == [i \in 1..Len(coerced) |->
                      WithColumn(coerced[i], "hour", HourCell(coerced[i]["timestamp"]))]
        Peak(row) == row["hour"] # NaN /\ row["hour"] >= PeakFirstHour
                                       /\ row["hour"] <= PeakLastHour
        OffPeak(row) == ~Peak(row)
        peak == Select(hours, Peak)
    IN  IF "timestamp" \in df.cols
        THEN IF Flag(filter_obj.criteria, "peak_hours")
             THEN StageResult(
                     Frame(df.cols, [i \in 1..Len(peak) |-> WithoutColumn(peak[i], "hour")]),
                     Concat(EmptyFrame,
                            Frame(df.cols \cup {"hour"}, Select(hours, OffPeak))))
             ELSE StageResult(Frame(df.cols, coerced), EmptyFrame)
        ELSE StageResult(df, EmptyFrame)

\* One (column, condition) item of a custom filter: the mask of a row
ConditionHolds(row, column, condition) ==
    CASE condition.test = "range" ->
            row[column] # NaN /\ row[column] >= condition.min /\ row[column] <= condition.max
      [] condition.test = "values" -> row[column] \in condition.values
      [] condition.test = "scalar" -> row[column] = condition.value

\* Mutant: a row is kept when it passes the condition of some item.
CustomLoop_AnyCondition(df, criteria, n) ==
    LET listed == {k \in 1..n : criteria[k][1] \in df.cols}
        Pass(row) == listed = {} \/ \E k \in listed :
                        CASE criteria[k][2].test = "range" ->
                                /\ row[criteria[k][1]] # NaN
                                /\ row[criteria[k][1]] >= criteria[k][2].min
                                /\ row[criteria[k][1]] <= criteria[k][2].max
                          [] criteria[k][2].test = "values" ->
                                row[criteria[k][1]] \in criteria[k][2].values
                          [] criteria[k][2].test = "scalar" ->
                                row[criteria[k][1]] = criteria[k][2].value
        Fail(row) == ~Pass(row)
    IN  StageResult(Frame(df.cols, Select(df.rows, Pass)),
                    Concat(EmptyFrame, Frame(df.cols, Select(df.rows, Fail))))

\* The loop of _apply_custom_filter over the first n items of the criteria
RECURSIVE CustomLoop(_, _, _)
CustomLoop(df, criteria, n) ==
    IF n = 0 THEN StageResult(df, EmptyFrame)
    ELSE LET before == CustomLoop(df, criteria, n - 1)
             column == criteria[n][1]
             condition == criteria[n][2]
             Pass(row) == ConditionHolds(row, column, condition)
             Fail(row) == ~Pass(row)
         IN  IF column \in df.cols
             THEN StageResult(
                     Frame(df.cols, Select(before.filtered.rows, Pass)),
                     Concat(before.removed,
                            Frame(df.cols, Select(before.filtered.rows, Fail))))
             ELSE before

\* Mutant: on an exception the stage returns what the items before the
\* raising one had already narrowed and removed.
ApplyCustomFilter_PartialOnError(df, filter_obj) ==
    LET criteria == filter_obj.criteria
        raising == {i \in 1..Len(criteria) :
                       criteria[i][1] \in df.cols /\ ConditionRaises(criteria[i][2])}
        first == CHOOSE i \in raising : \A j \in raising : i <= j
    IN  IF raising # {}
        THEN CustomLoop(df, criteria, first - 1)
        ELSE CustomLoop(df, criteria, Len(criteria))

\* _apply_custom_filter
ApplyCustomFilter(df, filter_obj) ==
    IF FilterRaises(df, filter_obj) THEN PassThrough(df)
    ELSE CustomLoop(df, filter_obj.criteria, Len(filter_obj.criteria))

\* _apply_single_filter
ApplySingleFilter(df, filter_obj) ==
    CASE filter_obj.filter_type = "risk_based" -> ApplyRiskBasedFilter(df, filter_obj)
      [] filter_obj.filter_type = "pattern_based" -> ApplyPatternBasedFilter(df, filter_obj)
      [] filter_obj.filter_type = "frequency_based" -> ApplyFrequencyBasedFilter(df, filter_obj)
      [] filter_obj.filter_type = "time_based" -> ApplyTimeBasedFilter(df, filter_obj)
      [] filter_obj.filter_type = "custom" -> ApplyCustomFilter(df, filter_obj)
      [] OTHER -> StageResult(df, EmptyFrame)

\* df['relevance_score'] = df.apply(calculate_relevance_score, axis=1)
AttachScores(df, context) ==
    Frame(df.cols \cup {"relevance_score"},
          [i \in 1..Len(df.rows) |->
              WithColumn(df.rows[i], "relevance_score",
                         CalculateRelevanceScore(df.rows[i], context))])

\* Mutant: the active flag is not looked at.
RECURSIVE FilterLoop_IgnoresActiveFlag(_, _, _)
FilterLoop_IgnoresActiveFlag(df_clean, filter_list, n) ==
    IF n = 0 THEN StageResult(df_clean, EmptyFrame)
    ELSE LET before == FilterLoop_IgnoresActiveFlag(df_clean, filter_list, n - 1)
             step == ApplySingleFilter(before.filtered, filter_list[n])
         IN  StageResult(step.filtered,
                         IF IsEmpty(step.removed) THEN before.removed
                         ELSE Concat(before.removed, step.removed))

\* Mutant: every filter is applied to the noise-reduced frame, and a row is
\* kept when every filter keeps it.
RECURSIVE FilterLoop_EachOnOriginal(_, _, _)
FilterLoop_EachOnOriginal(df_clean, filter_list, n) ==
    IF n = 0 THEN StageResult(df_clean, EmptyFrame)
    ELSE LET before == FilterLoop_EachOnOriginal(df_clean, filter_list, n - 1)
             step == ApplySingleFilter(df_clean, filter_list[n])
             Survives(row) == \E i \in 1..Len(step.filtered.rows) : step.filtered.rows[i] = row
             Removed(row) == ~Survives(row)
         IN  IF filter_list[n].is_active
             THEN StageResult(Frame(df_clean.cols, Select(before.filtered.rows, Survives)),
                              Concat(before.removed,
                                     Frame(df_clean.cols, Select(before.filtered.rows, Removed))))
             ELSE before

\* Mutant: the rows a filter removes are put in front of those removed before.
RECURSIVE FilterLoop_PrependsRemoved(_, _, _)
FilterLoop_PrependsRemoved(df_clean, filter_list, n) ==
    IF n = 0 THEN StageResult(df_clean, EmptyFrame)
    ELSE LET before == FilterLoop_PrependsRemoved(df_clean, filter_list, n - 1)
             step == ApplySingleFilter(before.filtered, filter_list[n])
         IN  IF filter_list[n].is_active
             THEN StageResult(step.filtered,
                              IF IsEmpty(step.removed) THEN before.removed
                              ELSE Concat(step.removed, before.removed))
             ELSE before

\* Mutant: filtered_out holds what the last removing filter removed only.
RECURSIVE FilterLoop_ForgetsEarlierRemoved(_, _, _)
FilterLoop_ForgetsEarlierRemoved(df_clean, filter_list, n) ==
    IF n = 0 THEN StageResult(df_clean, EmptyFrame)
    ELSE LET before == FilterLoop_ForgetsEarlierRemoved(df_clean, filter_list, n - 1)
             step == ApplySingleFilter(before.filtered, filter_list[n])
         IN  IF filter_list[n].is_active
             THEN StageResult(step.filtered,
                              IF IsEmpty(step.removed) THEN before.removed
                              ELSE Concat(EmptyFrame, step.removed))
             ELSE before

\* The loop of apply_filters over the first n entries of self.filters:
\* [filtered |-> filtered_data, removed |-> filtered_out]
RECURSIVE FilterLoop(_, _, _)
FilterLoop(df_clean, filter_list, n) ==
    IF n = 0 THEN StageResult(df_clean, EmptyFrame)
    ELSE LET before == FilterLoop(df_clean, filter_list, n - 1)
             step == ApplySingleFilter(before.filtered, filter_list[n])
         IN  IF filter_list[n].is_active
             THEN StageResult(step.filtered,
                              IF IsEmpty(step.removed) THEN before.removed
                              ELSE Concat(before.removed, step.removed))
             ELSE before

\* The rows are in non-increasing order of relevance score
SortedByScore(rows) ==
    \A i \in 1..(Len(rows) - 1) :
        rows[i]["relevance_score"] >= rows[i + 1]["relevance_score"]

IndexPermutations(n) == {p \in [1..n -> 1..n] : \A i, j \in 1..n : p[i] = p[j] => i = j}

\* sort_values('relevance_score', ascending=False) with the default kind
\* 'quicksort', which is not a stable sort: every ordering of the rows by
\* non-increasing score is a possible outcome.
SortOutcomes(df) ==
    {Frame(df.cols, [i \in 1..Len(df.rows) |-> df.rows[p[i]]]) :
        p \in {q \in IndexPermutations(Len(df.rows)) :
                  SortedByScore([i \in 1..Len(df.rows) |-> df.rows[q[i]]])}}

----------------------------------------------------------------------------
(* Specification SpecScore: calculate_relevance_score on one row and one   *)
(* context drawn from the boundary values of every feature table.          *)

\* Marks a key that the row or the context does not have.
Absent == -3
AbsentService == "<absent>"

DurationCells == {Absent, NaN, 0, 3, 200, 1000, 4000, BadValue}
\* Mon 02:00, Mon 10:00, Mon 19:00, Sat 10:00
TimestampCells == {Absent, NaN, 2, 10, 19, 130, BadValue}
ServiceCells == {AbsentService, NoService, "VOICE", "sms", "MMS", "DATA",
                 "ROAMING", "FAX", NonStrService}
FrequencyCells == {Absent, 1, 5, 20, 100, 101, BadValue}
RiskCells == {Absent, 10, 20, 40, 60, 80, BadValue}
DistanceCells == {Absent, 50, 500, 5000, BadValue}

\* A pandas row (Series) holding the columns the scorer reads
MakeRow(d, t, s) ==
    [k \in ((IF d = Absent THEN {} ELSE {"duration"})
            \cup (IF t = Absent THEN {} ELSE {"timestamp"}))
        |-> IF k = "duration" THEN d ELSE t]
    @@ (IF s = AbsentService THEN <<>> ELSE [k \in {"service_type"} |-> s])

MakeGeo(dist, cross, intl) ==
    (IF dist = Absent THEN <<>> ELSE [k \in {"distance_km"} |-> dist])
    @@ [k \in ((IF cross THEN {"cross_border"} ELSE {})
               \cup (IF intl THEN {"international"} ELSE {})) |-> TRUE]

GeoContexts ==
    {MakeGeo(dist, cross, intl) :
        dist \in DistanceCells, cross \in BOOLEAN, intl \in BOOLEAN}

MakeContext(freq, risk, geos) ==
    [k \in ((IF freq = Absent THEN {} ELSE {"entity_frequency"})
            \cup (IF risk = Absent THEN {} ELSE {"risk_score"}))
        |-> IF k = "entity_frequency" THEN freq ELSE risk]
    @@ (IF geos = {} THEN <<>>
        ELSE [k \in {"geographic_context"} |-> CHOOSE g \in geos : TRUE])

ScoreRows ==
    {MakeRow(d, t, s) : d \in DurationCells, t \in TimestampCells, s \in ServiceCells}

ScoreContexts ==
    {MakeContext(freq, risk, geos) :
        freq \in FrequencyCells, risk \in RiskCells,
        geos \in {{}} \cup {{g} : g \in GeoContexts}}

NotScored == -4

\* The variables of a component that a specification does not exercise
ScoreIdle ==
    /\ s_row = <<>>
    /\ s_ctx = NoContext
    /\ s_score = NotScored
    /\ s_pc = "idle"

ScoreInit ==
    /\ AnalyzerIdle
    /\ NoiseIdle
    /\ FilterIdle
    /\ s_row \in ScoreRows
    /\ s_ctx \in ScoreContexts
    /\ s_score = NotScored
    /\ s_pc = "call"

\* score = self.calculate_relevance_score(row, context)
ScoreCall ==
    /\ s_pc = "call"
    /\ s_score' = CalculateRelevanceScore(s_row, s_ctx)
    /\ s_pc' = "returned"
    /\ UNCHANGED <<s_row, s_ctx>>
    /\ UNCHANGED <<noise_vars, filter_vars, analyzer_vars>>

ScoreNext == ScoreCall

SpecScore == ScoreInit /\ [][ScoreNext]_vars

----------------------------------------------------------------------------
(* Specification SpecNoise: the Noise Reducer run on a frame and then on    *)
(* its own output.                                                         *)

MaxNoiseRecords == 3

Party551 == StrCell(<<"5","5","1">>)
Party552 == StrCell(<<"5","5","2">>)
PartyTest == StrCell(<<"T","e","s","t","7">>)
PartyPrivateIp == StrCell(<<"1","7","2",".","2","0",".","1">>)

NoiseRow(a, b, d, s) ==
    [a_party |-> a, b_party |-> b, timestamp |-> 10, duration |-> d, service_type |-> s]

\* Two rows every stage keeps, one row for each stage that drops it (a noise
\* token in a_party, a private address in b_party, a duration out of bounds
\* or missing, an unknown service) and a row every stage would drop.
NoiseRows ==
    { NoiseRow(Party551, Party552, 200, "VOICE"),
      NoiseRow(Party552, Party551, 200, "VOICE"),
      NoiseRow(PartyTest, Party552, 200, "VOICE"),
      NoiseRow(Party551, PartyPrivateIp, 200, "VOICE"),
      NoiseRow(Party551, Party552, 4000, "VOICE"),
      NoiseRow(Party551, Party552, NaN, "VOICE"),
      NoiseRow(Party551, Party552, 200, "FAX"),
      NoiseRow(PartyTest, PartyPrivateIp, 4000, "FAX") }

SeqsUpTo(S, n) == UNION {[1..k -> S] : k \in 0..n}

\* The frame with one column left out
DropColumn(df, col) ==
    Frame(df.cols \ {col}, [i \in 1..Len(df.rows) |-> WithoutColumn(df.rows[i], col)])

NoiseFrames ==
    LET full == {Frame(KeyColumns, rows) : rows \in SeqsUpTo(NoiseRows, MaxNoiseRecords)}
    IN  full \cup {DropColumn(df, "duration") : df \in full}
             \cup {DropColumn(df, "service_type") : df \in full}

NoiseInit ==
    /\ AnalyzerIdle
    /\ ScoreIdle
    /\ FilterIdle
    /\ n_df \in NoiseFrames
    /\ n_once = EmptyFrame
    /\ n_twice = EmptyFrame
    /\ n_pc = "start"

\* once = self._apply_noise_reduction(df)
NoiseReduceOnce ==
    /\ n_pc = "start"
    /\ n_once' = ApplyNoiseReduction(n_df)
    /\ n_pc' = "once"
    /\ UNCHANGED <<n_df, n_twice>>
    /\ UNCHANGED <<score_vars, filter_vars, analyzer_vars>>

\* twice = self._apply_noise_reduction(once)
NoiseReduceAgain ==
    /\ n_pc = "once"
    /\ n_twice' = ApplyNoiseReduction(n_once)
    /\ n_pc' = "twice"
    /\ UNCHANGED <<n_df, n_once>>
    /\ UNCHANGED <<score_vars, filter_vars, analyzer_vars>>

NoiseNext == NoiseReduceOnce \/ NoiseReduceAgain

SpecNoise == NoiseInit /\ [][NoiseNext]_vars

----------------------------------------------------------------------------
(* Specification SpecFilter: the filter list is edited, then apply_filters *)
(* is called once on a frame.                                              *)

MaxRecords == 2
MaxFilters == 2

Party553 == StrCell(<<"5","5","3">>)
PartyBurner == StrCell(<<"1","2","3","1","2","3","1","2","3","1">>)

\* Two rows of equal score between the same two parties, a long late-night
\* SMS session to a burner-like number, and a row the Noise Reducer drops
\* (duration out of bounds, unknown service).
FilterRows ==
    { [a_party |-> Party551, b_party |-> Party552, timestamp |-> 10,
       duration |-> 200, service_type |-> "VOICE"],
      [a_party |-> Party552, b_party |-> Party551, timestamp |-> 10,
       duration |-> 200, service_type |-> "VOICE"],
      [a_party |-> Party551, b_party |-> PartyBurner, timestamp |-> 2,
       duration |-> 1000, service_type |-> "SMS"],
      [a_party |-> Party552, b_party |-> Party553, timestamp |-> 130,
       duration |-> 4000, service_type |-> "FAX"] }

FilterContexts == {NoContext, MakeContext(20, 80, {})}

\* The filters a caller passes to add_filter
UserFilters ==
    << FilterCriteria("Risk 40", "risk_based", "high",
           << <<"min_risk_score", 40>> >>, 10, "", TRUE),
       FilterCriteria("Frequent Callers", "frequency_based", "medium",
           << <<"min_connections", 2>> >>, 10, "", TRUE),
       FilterCriteria("Short From 551", "custom", "low",
           << <<"service_type", Values({"VOICE", "DATA"})>>, <<"duration", Range(1, 300)>>,
              <<"a_party", Scalar(Party551)>> >>,
           10, "", TRUE),
       FilterCriteria("Bad Range", "custom", "low",
           << <<"service_type", Values({"VOICE", "DATA"})>>,
              <<"duration", Range(BadValue, BadValue)>> >>,
           10, "", TRUE),
       FilterCriteria("Office Hours", "time_based", "info",
           << <<"peak_hours", TRUE>> >>, 10, "", FALSE) >>

FilterInit ==
    /\ AnalyzerIdle
    /\ ScoreIdle
    /\ NoiseIdle
    /\ ConfigIdle
    /\ f_again = StageResult(EmptyFrame, EmptyFrame)
    /\ filters = <<>>
    /\ f_input = EmptyFrame
    /\ caller_df = EmptyFrame
    /\ f_context = NoContext
    /\ f_clean = EmptyFrame
    /\ f_unsorted = EmptyFrame
    /\ f_kept = EmptyFrame
    /\ f_removed = EmptyFrame
    /\ f_pc = "ready"

\* add_filter(filter_criteria)
AddFilter ==
    /\ f_pc = "ready"
    /\ Len(filters) < MaxFilters
    /\ \E i \in 1..Len(UserFilters) : filters' = Append(filters, UserFilters[i])
    /\ UNCHANGED <<caller_df, f_input, f_context, f_clean, f_unsorted, f_kept, f_removed, f_pc, f_again>>
    /\ UNCHANGED config_vars
    /\ UNCHANGED <<score_vars, noise_vars, analyzer_vars>>

\* apply_template(template_name) of a known template
ApplyTemplate ==
    /\ f_pc = "ready"
    /\ Len(filters) < MaxFilters
    /\ \E i \in 1..Len(TemplateNames) :
          filters' = Append(filters, FilterTemplate(TemplateNames[i]))
    /\ UNCHANGED <<caller_df, f_input, f_context, f_clean, f_unsorted, f_kept, f_removed, f_pc, f_again>>
    /\ UNCHANGED config_vars
    /\ UNCHANGED <<score_vars, noise_vars, analyzer_vars>>

\* The list without its entry at position i
DeleteAt(list, i) == [k \in 1..(Len(list) - 1) |-> IF k < i THEN list[k] ELSE list[k + 1]]

\* remove_filter(filter_name) of a name in the list: the first such entry
RemoveFilter ==
    /\ f_pc = "ready"
    /\ \E i \in 1..Len(filters) :
          /\ \A j \in 1..(i - 1) : filters[j].name # filters[i].name
          /\ filters' = DeleteAt(filters, i)
    /\ UNCHANGED <<caller_df, f_input, f_context, f_clean, f_unsorted, f_kept, f_removed, f_pc, f_again>>
    /\ UNCHANGED config_vars
    /\ UNCHANGED <<score_vars, noise_vars, analyzer_vars>>

\* The frames a caller passes to apply_filters
FilterFrames == {Frame(KeyColumns, rows) : rows \in SeqsUpTo(FilterRows, MaxRecords)}

\* The first two steps of apply_filters (the score column, then the noise
\* reduction), tabulated over the frames and contexts of the specification
ScoredFrames ==
    [df \in FilterFrames, context \in FilterContexts |-> AttachScores(df, context)]
CleanFrames ==
    [df \in FilterFrames, context \in FilterContexts |->
        ApplyNoiseReduction(ScoredFrames[df, context])]

\* filtered_data, filtered_out = apply_filters(df, context)
ApplyFilters ==
    /\ f_pc = "ready"
    /\ \E df \in FilterFrames, context \in FilterContexts :
          /\ f_input' = df
          /\ f_context' = context
          /\ IF IsEmpty(df)
             THEN /\ caller_df' = df
                  /\ f_kept' = df
                  /\ f_removed' = df
                  /\ UNCHANGED <<f_clean, f_unsorted>>
             ELSE LET scored == ScoredFrames[df, context]
                      df_clean == CleanFrames[df, context]
                      result == FilterLoop(df_clean, filters, Len(filters))
                  IN  /\ caller_df' = scored
                      /\ f_clean' = df_clean
                      /\ f_unsorted' = result.filtered
                      /\ f_kept' \in SortOutcomes(result.filtered)
                      /\ f_removed' = result.removed
    /\ f_pc' = "filtered"
    /\ UNCHANGED <<filters, f_again>>
    /\ UNCHANGED config_vars
    /\ UNCHANGED <<score_vars, noise_vars, analyzer_vars>>

\* kept_again, removed_again = apply_filters(kept, context): a second call,
\* on the kept frame the first call returned.  The score column the frame
\* already has is assigned again.
ApplyFiltersAgain ==
    /\ f_pc = "filtered"
    /\ IF IsEmpty(f_kept)
       THEN f_again' = StageResult(f_kept, f_kept)
       ELSE LET df_clean == ApplyNoiseReduction(AttachScores(f_kept, f_context))
                result == FilterLoop(df_clean, filters, Len(filters))
            IN  \E sorted \in SortOutcomes(result.filtered) :
                    f_again' = StageResult(sorted, result.removed)
    /\ f_pc' = "refiltered"
    /\ UNCHANGED <<filters, caller_df, f_input, f_context, f_clean, f_unsorted, f_kept,
                   f_removed>>
    /\ UNCHANGED config_vars
    /\ UNCHANGED <<score_vars, noise_vars, analyzer_vars>>

FilterNext ==
    AddFilter \/ ApplyTemplate \/ RemoveFilter \/ ApplyFilters \/ ApplyFiltersAgain

SpecFilter == FilterInit /\ [][FilterNext]_vars

----------------------------------------------------------------------------
(* Specification SpecConfig: the filter list is edited with add_filter,    *)
(* apply_template and remove_filter, saved to the configuration file and   *)
(* loaded from it, in any order.                                           *)

MaxConfigFilters == 2

\* The members of the enums FilterType and FilterPriority.  A member is
\* denoted by the string that is its value; the value itself, a str, by
\* ValueOf(member).
FilterTypeMembers ==
    {"time_based", "frequency_based", "pattern_based", "risk_based", "custom"}
FilterPriorityMembers == {"critical", "high", "medium", "low", "info"}

\* member.value
ValueOf(member) == [value |-> member]

\* FilterType(value), FilterPriority(value): the member with that value
EnumLookup(members, value) == CHOOSE member \in members : ValueOf(member) = value
\* ... which raises ValueError when no member has it
EnumLookupRaises(members, value) == \A member \in members : ValueOf(member) # value

\* apply_template(template_name) on that list: the list after the call and
\* what the call returns
ApplyTemplateResult(list, template_name) ==
    IF \E i \in 1..Len(TemplateNames) : TemplateNames[i] = template_name
    THEN [filters |-> Append(list, FilterTemplate(template_name)), returned |-> "True"]
    ELSE [filters |-> list, returned |-> "False"]

\* Mutant: every entry with that name is deleted.
RemoveFilterResult_RemovesEveryMatch(list, filter_name) ==
    LET Other(f) == f.name # filter_name
    IN  IF \E i \in 1..Len(list) : list[i].name = filter_name
        THEN [filters |-> SelectSeq(list, Other), returned |-> "True"]
        ELSE [filters |-> list, returned |-> "False"]

\* remove_filter(filter_name) on that list
RemoveFilterResult(list, filter_name) ==
    LET matching == {i \in 1..Len(list) : list[i].name = filter_name}
        first == CHOOSE i \in matching : \A j \in matching : i <= j
    IN  IF matching # {}
        THEN [filters |-> DeleteAt(list, first), returned |-> "True"]
        ELSE [filters |-> list, returned |-> "False"]

\* The keys of an entry of 'filters' in the configuration file
EntryKeys ==
    {"name", "filter_type", "priority", "criteria", "weight", "description", "is_active"}

\* The dict save_filter_configuration builds of one filter
EncodeFilter(f) ==
    [name |-> f.name,
     filter_type |-> ValueOf(f.filter_type),
     priority |-> ValueOf(f.priority),
     criteria |-> f.criteria,
     weight |-> f.weight,
     description |-> f.description,
     is_active |-> f.is_active]

\* The file json.dump writes: the config dict with a list of entries
SavedFile(list) ==
    [kind |-> "object", filters |-> [i \in 1..Len(list) |-> EncodeFilter(list[i])]]

\* Building the FilterCriteria of an entry raises: a key is missing
\* (KeyError) or a value is no value of the enum (ValueError)
EntryRaises(entry) ==
    \/ ~(EntryKeys \subseteq DOMAIN entry)
    \/ EnumLookupRaises(FilterTypeMembers, entry["filter_type"])
    \/ EnumLookupRaises(FilterPriorityMembers, entry["priority"])

\* Mutant: a loaded filter is active, whatever the entry says.
DecodeFilter_AlwaysActive(entry) ==
    [name |-> entry["name"],
     filter_type |-> entry["filter_type"].value,
     priority |-> entry["priority"].value,
     criteria |-> entry["criteria"],
     weight |-> entry["weight"],
     description |-> entry["description"],
     is_active |-> TRUE]

\* The FilterCriteria load_filter_configuration builds of one entry
DecodeFilter(entry) ==
    FilterCriteria(entry["name"],
                   EnumLookup(FilterTypeMembers, entry["filter_type"]),
                   EnumLookup(FilterPriorityMembers, entry["priority"]),
                   entry["criteria"], entry["weight"], entry["description"],
                   entry["is_active"])

\* The entries of a decoded file that are turned into filters: those
\* before the first entry that raises
LoadedEntries(entries) ==
    LET raising == {i \in 1..Len(entries) : EntryRaises(entries[i])}
        upto == IF raising = {} THEN Len(entries)
                ELSE (CHOOSE i \in raising : \A j \in raising : i <= j) - 1
    IN  [filters |-> [i \in 1..upto |-> DecodeFilter(entries[i])],
         returned |-> IF raising = {} THEN "True" ELSE "False"]

\* Mutant: the list is replaced only when every entry could be built.
LoadResult_AllOrNothing(before, file) ==
    IF file.kind \in {"missing", "garbage"}
    THEN [filters |-> before, returned |-> "False"]
    ELSE IF file.kind = "array"
    THEN [filters |-> before, returned |-> "False"]
    ELSE LET raising == {i \in 1..Len(file.filters) :
                            \/ ~({"name", "filter_type", "priority", "criteria", "weight",
                                  "description", "is_active"} \subseteq DOMAIN file.filters[i])
                            \/ file.filters[i]["filter_type"].value \notin
                                  {"time_based", "frequency_based", "pattern_based",
                                   "risk_based", "custom"}
                            \/ file.filters[i]["priority"].value \notin
                                  {"critical", "high", "medium", "low", "info"}}
         IN  IF raising # {} THEN [filters |-> before, returned |-> "False"]
             ELSE [filters |-> [i \in 1..Len(file.filters) |->
                                   [name |-> file.filters[i]["name"],
                                    filter_type |-> file.filters[i]["filter_type"].value,
                                    priority |-> file.filters[i]["priority"].value,
                                    criteria |-> file.filters[i]["criteria"],
                                    weight |-> file.filters[i]["weight"],
                                    description |-> file.filters[i]["description"],
                                    is_active |-> file.filters[i]["is_active"]]],
                   returned |-> "True"]

\* load_filter_configuration(filepath) when self.filters is `before`: open
\* and json.load raise before the list is cleared; config.get raises on a
\* document that is no object, after the list is cleared; config.get gives
\* [] when the object has no 'filters'.
LoadResult(before, file) ==
    IF file.kind \in {"missing", "garbage"}
    THEN [filters |-> before, returned |-> "False"]
    ELSE IF file.kind = "array"
    THEN [filters |-> <<>>, returned |-> "False"]
    ELSE LoadedEntries(file.filters)

\* The filters a caller passes to add_filter: a custom filter, and an
\* inactive filter with the name of a template
ConfigFilters ==
    { UserFilters[3],
      FilterCriteria("Suspicious Activity", "time_based", "info",
          << <<"peak_hours", TRUE>> >>, 5, "office hours only", FALSE) }

\* The template names a caller passes to apply_template
ConfigTemplateNames == {"law_enforcement_critical", "suspicious_activity", "no_such_template"}

\* The names a caller passes to remove_filter
ConfigNames ==
    {f.name : f \in ConfigFilters}
        \cup {FilterTemplate(TemplateNames[i]).name : i \in 1..Len(TemplateNames)}

\* What is at the path of the configuration file at the start: nothing, a
\* file that is no JSON, a JSON array, an object without 'filters', and
\* objects whose entries are good ones, an entry without 'weight' and an
\* entry whose filter_type is no value of FilterType.
ConfigFiles ==
    LET good == EncodeFilter(FilterTemplate("network_analysis"))
        other == EncodeFilter(UserFilters[1])
        no_weight == [key \in EntryKeys \ {"weight"} |-> good[key]]
        bad_type == [good EXCEPT !.filter_type = ValueOf("geo_based")]
    IN  {MissingFile,
         [kind |-> "garbage", filters |-> <<>>],
         [kind |-> "array", filters |-> <<>>],
         [kind |-> "object", filters |-> <<>>],
         [kind |-> "object", filters |-> <<good, other>>],
         [kind |-> "object", filters |-> <<no_weight, good>>],
         [kind |-> "object", filters |-> <<good, bad_type, other>>]}

ConfigInit ==
    /\ AnalyzerIdle
    /\ ScoreIdle
    /\ NoiseIdle
    /\ filters = <<>>
    /\ f_input = EmptyFrame
    /\ caller_df = EmptyFrame
    /\ f_context = NoContext
    /\ f_clean = EmptyFrame
    /\ f_unsorted = EmptyFrame
    /\ f_kept = EmptyFrame
    /\ f_removed = EmptyFrame
    /\ f_pc = "ready"
    /\ f_again = StageResult(EmptyFrame, EmptyFrame)
    /\ f_call = NoCall
    /\ config_file \in ConfigFiles
    /\ saved_filters = NotSaved

\* add_filter(filter_criteria)
ConfigAddFilter ==
    /\ Len(filters) < MaxConfigFilters
    /\ \E f \in ConfigFilters :
          /\ filters' = Append(filters, f)
          /\ f_call' = [op |-> "add_filter", arg |-> f.name, returned |-> "None"]
    /\ UNCHANGED <<config_file, saved_filters>>
    /\ UNCHANGED <<caller_df, f_input, f_context, f_clean, f_unsorted, f_kept, f_removed, f_pc, f_again>>
    /\ UNCHANGED <<score_vars, noise_vars, analyzer_vars>>

\* apply_template(template_name)
ConfigApplyTemplate ==
    /\ Len(filters) < MaxConfigFilters
    /\ \E template_name \in ConfigTemplateNames :
          LET result == ApplyTemplateResult(filters, template_name)
          IN  /\ filters' = result.filters
              /\ f_call' = [op |-> "apply_template", arg |-> template_name,
                            returned |-> result.returned]
    /\ UNCHANGED <<config_file, saved_filters>>
    /\ UNCHANGED <<caller_df, f_input, f_context, f_clean, f_unsorted, f_kept, f_removed, f_pc, f_again>>
    /\ UNCHANGED <<score_vars, noise_vars, analyzer_vars>>

\* remove_filter(filter_name)
ConfigRemoveFilter ==
    /\ \E filter_name \in ConfigNames :
          LET result == RemoveFilterResult(filters, filter_name)
          IN  /\ filters' = result.filters
              /\ f_call' = [op |-> "remove_filter", arg |-> filter_name,
                            returned |-> result.returned]
    /\ UNCHANGED <<config_file, saved_filters>>
    /\ UNCHANGED <<caller_df, f_input, f_context, f_clean, f_unsorted, f_kept, f_removed, f_pc, f_again>>
    /\ UNCHANGED <<score_vars, noise_vars, analyzer_vars>>

\* save_filter_configuration(filepath): open(filepath, 'w') raises when the
\* path cannot be written, and the file is left as it is
SaveFilterConfiguration ==
    /\ \E writable \in BOOLEAN :
          IF writable
          THEN /\ config_file' = SavedFile(filters)
               /\ saved_filters' = [written |-> TRUE, filters |-> filters]
               /\ f_call' = [op |-> "save_filter_configuration", arg |-> "",
                             returned |-> "True"]
          ELSE /\ UNCHANGED <<config_file, saved_filters>>
               /\ f_call' = [op |-> "save_filter_configuration", arg |-> "",
                             returned |-> "False"]
    /\ UNCHANGED <<filters, caller_df, f_input, f_context, f_clean, f_unsorted, f_kept,
                   f_removed, f_pc, f_again>>
    /\ UNCHANGED <<score_vars, noise_vars, analyzer_vars>>

\* load_filter_configuration(filepath)
LoadFilterConfiguration ==
    /\ LET result == LoadResult(filters, config_file)
       IN  /\ filters' = result.filters
           /\ f_call' = [op |-> "load_filter_configuration", arg |-> config_file.kind,
                         returned |-> result.returned]
    /\ UNCHANGED <<config_file, saved_filters>>
    /\ UNCHANGED <<caller_df, f_input, f_context, f_clean, f_unsorted, f_kept, f_removed, f_pc, f_again>>
    /\ UNCHANGED <<score_vars, noise_vars, analyzer_vars>>

ConfigNext ==
    \/ ConfigAddFilter
    \/ ConfigApplyTemplate
    \/ ConfigRemoveFilter
    \/ SaveFilterConfiguration
    \/ LoadFilterConfiguration

SpecConfig == ConfigInit /\ [][ConfigNext]_vars

----------------------------------------------------------------------------
(* IPDRAnalyzer: parse_ipdr_file, _normalize_columns, extract_relationships *)
(*                                                                          *)
(* A timestamp cell of an analyzer frame is [kind, value]: kind "text" is   *)
(* the cell as read from the file (value is the hour its text stands for,   *)
(* or BadValue when the text is no date), kind "datetime" is the Timestamp  *)
(* pd.to_datetime makes of it.                                              *)

TimestampText(value) == [kind |-> "text", value |-> value]
Datetime(value) == [kind |-> "datetime", value |-> value]

\* row.get('timestamp') of a row without the column
NoTimestamp == [kind |-> "None", value |-> NaN]

\* column_mapping of _normalize_columns
ColumnMapping ==
    [old_name \in {"calling_number", "called_number", "caller", "callee",
                   "source_ip", "dest_ip", "call_duration", "session_duration",
                   "call_time", "start_time"} |->
        CASE old_name \in {"calling_number", "caller", "source_ip"} -> "a_party"
          [] old_name \in {"called_number", "callee", "dest_ip"} -> "b_party"
          [] old_name \in {"call_duration", "session_duration"} -> "duration"
          [] old_name \in {"call_time", "start_time"} -> "timestamp"]

RenameColumn(name) == IF name \in DOMAIN ColumnMapping THEN ColumnMapping[name] ELSE name

\* self.data.rename(columns={old_name: new_name}, inplace=True) for every
\* mapped column present (a file names each field once)
RenameRow(row) ==
    [name \in {RenameColumn(old_name) : old_name \in DOMAIN row} |->
        row[CHOOSE old_name \in DOMAIN row : RenameColumn(old_name) = name]]

RenameRows(rows) == [i \in 1..Len(rows) |-> RenameRow(rows[i])]

RenameColumns(df) ==
    Frame({RenameColumn(old_name) : old_name \in df.cols}, RenameRows(df.rows))

\* pd.to_datetime raises on a text that is no date
ToDatetimeRaises(df) ==
    /\ "timestamp" \in df.cols
    /\ \E i \in 1..Len(df.rows) : df.rows[i]["timestamp"] = TimestampText(BadValue)

CoerceRows(rows) ==
    [i \in 1..Len(rows) |-> [rows[i] EXCEPT !["timestamp"] = Datetime(@.value)]]

\* self.data['timestamp'] = pd.to_datetime(self.data['timestamp'])
ToDatetime(df) ==
    IF "timestamp" \in df.cols THEN Frame(df.cols, CoerceRows(df.rows)) ELSE df

\* _normalize_columns on self.data = df: whether it returned, and self.data
\* when it returned or raised (the renaming is in place and comes first)
NormalizeColumns(df) ==
    LET renamed == RenameColumns(df)
    IN  IF ToDatetimeRaises(renamed)
        THEN [returned |-> FALSE, data |-> renamed]
        ELSE [returned |-> TRUE, data |-> ToDatetime(renamed)]

\* total_duration + duration
AddDuration(total, duration) == total + duration

\* Mutant: the edge found is created anew from the record.
AddRecord_ReplacesEdge(graph, row) ==
    LET a_party == Str(row["a_party"])
        b_party == Str(row["b_party"])
        edge == {a_party, b_party}
        duration == IF Has(row, "duration") THEN row["duration"] ELSE 0
        first_contact == IF Has(row, "timestamp") THEN row["timestamp"] ELSE NoTimestamp
    IN  [nodes |-> graph.nodes \cup edge,
         edges |-> (edge :> [weight |-> 1, total_duration |-> duration,
                             first_contact |-> first_contact]) @@ graph.edges]

\* The body of the loop of extract_relationships for one record
AddRecord(graph, row) ==
    LET a_party == Str(row["a_party"])
        b_party == Str(row["b_party"])
        edge == {a_party, b_party}
        duration == IF Has(row, "duration") THEN row["duration"] ELSE 0
        first_contact == IF Has(row, "timestamp") THEN row["timestamp"] ELSE NoTimestamp
    IN  IF edge \in DOMAIN graph.edges
        THEN [graph EXCEPT !.edges[edge] =
                 [@ EXCEPT !.weight = @ + 1,
                           !.total_duration = AddDuration(@, duration)]]
        ELSE [nodes |-> graph.nodes \cup edge,
              edges |-> (edge :> [weight |-> 1, total_duration |-> duration,
                                  first_contact |-> first_contact]) @@ graph.edges]

\* for _, row in self.data.iterrows(): the records first to last, in order.
\* The range is halved, and the graph after the first half is a value
\* before the second half starts, to keep the evaluation shallow.
RECURSIVE ExtractRange(_, _, _, _)
ExtractRange(graph, rows, first, last) ==
    IF first > last THEN graph
    ELSE IF first = last THEN AddRecord(graph, rows[first])
    ELSE LET middle == (first + last) \div 2
         IN  CHOOSE after \in {ExtractRange(half, rows, middle + 1, last) :
                                  half \in {ExtractRange(graph, rows, first, middle)}} : TRUE

\* the first n records
ExtractLoop(graph, rows, n) == ExtractRange(graph, rows, 1, n)

----------------------------------------------------------------------------
(* IPDRAnalyzer: analyze_communication_patterns,                           *)
(* detect_suspicious_activities, search_entity                             *)

UnusualHourFrom == 23
UnusualHourTo == 5
ShortDuration == 5
HighFrequencyCount == 50
HighDegree == 20
EvidenceRows == 10
BusiestHours == 3

\* .dt of a column that pd.to_datetime has not converted raises
\* AttributeError
NotDatetime(df) ==
    /\ "timestamp" \in df.cols
    /\ \E i \in 1..Len(df.rows) : df.rows[i]["timestamp"].kind # "datetime"

\* self.data['timestamp'].dt.hour of one record (NaN for NaT)
HourOf(row) ==
    IF row["timestamp"].value = NaN THEN NaN ELSE Hour(row["timestamp"].value)

\* df[[...]].head(10).to_dict('records')
Evidence(rows, cols) ==
    [i \in 1..Min(Len(rows), EvidenceRows) |-> Project(rows[i], cols)]

\* groupby(['a_party', 'b_party']).size(): the count of each ordered pair
PairCounts(rows) ==
    [pair \in {<<rows[i]["a_party"], rows[i]["b_party"]>> : i \in 1..Len(rows)} |->
        Cardinality({i \in 1..Len(rows) :
                        rows[i]["a_party"] = pair[1] /\ rows[i]["b_party"] = pair[2]})]

\* Graph.degree of networkx: the edges at the node, a self-loop counting
\* twice
Degree(graph, node) ==
    Cardinality({edge \in DOMAIN graph.edges : node \in edge /\ edge # {node}})
        + (IF {node} \in DOMAIN graph.edges THEN 2 ELSE 0)

\* The four rules of detect_suspicious_activities, each the list of the
\* findings it appends (none or one); the description of a finding is the
\* number its text states
UnusualTiming(df) ==
    LET IsLate(row) == /\ HourOf(row) # NaN
                       /\ (HourOf(row) >= UnusualHourFrom \/ HourOf(row) <= UnusualHourTo)
        late_night_calls == IF "timestamp" \in df.cols THEN SelectSeq(df.rows, IsLate) ELSE <<>>
    IN  IF Len(late_night_calls) > 0
        THEN <<[type |-> "unusual_timing", severity |-> "medium",
                description |-> Len(late_night_calls),
                details |-> Evidence(late_night_calls, {"a_party", "b_party", "timestamp"})]>>
        ELSE <<>>

\* Mutant: the rule fires from one short record in ten.
ShortDurationPattern_AtLeastTenth(df) ==
    LET IsShort(row) == row["duration"] # NaN /\ row["duration"] <= ShortDuration
        short_calls == IF "duration" \in df.cols THEN SelectSeq(df.rows, IsShort) ELSE <<>>
    IN  IF "duration" \in df.cols /\ 10 * Len(short_calls) >= Len(df.rows)
        THEN <<[type |-> "short_duration_pattern", severity |-> "high",
                description |-> Len(short_calls),
                details |-> Evidence(short_calls, {"a_party", "b_party", "duration"})]>>
        ELSE <<>>

\* len(short_calls) > len(self.data) * 0.1: the double 0.1 is above one
\* tenth, so the product is never below len/10 and never reaches the next
\* integer; the test is 10 * len(short_calls) > len(self.data).
ShortDurationPattern(df) ==
    LET IsShort(row) == row["duration"] # NaN /\ row["duration"] <= ShortDuration
        short_calls == IF "duration" \in df.cols THEN SelectSeq(df.rows, IsShort) ELSE <<>>
    IN  IF "duration" \in df.cols /\ 10 * Len(short_calls) > Len(df.rows)
        THEN <<[type |-> "short_duration_pattern", severity |-> "high",
                description |-> Len(short_calls),
                details |-> Evidence(short_calls, {"a_party", "b_party", "duration"})]>>
        ELSE <<>>

\* details: the pairs found (never more than ten in the records of the
\* specifications, so head(10) drops none)
HighFrequencyCommunication(df) ==
    LET pair_counts == PairCounts(df.rows)
        high_freq_pairs == {pair \in DOMAIN pair_counts : pair_counts[pair] > HighFrequencyCount}
    IN  IF high_freq_pairs # {}
        THEN <<[type |-> "high_frequency_communication", severity |-> "medium",
                description |-> Cardinality(high_freq_pairs),
                details |-> {[a_party |-> pair[1], b_party |-> pair[2],
                              count |-> pair_counts[pair]] : pair \in high_freq_pairs}]>>
        ELSE <<>>

HighConnectivityNodes(graph) ==
    LET high_degree_nodes == {node \in graph.nodes : Degree(graph, node) > HighDegree}
    IN  IF high_degree_nodes # {}
        THEN <<[type |-> "high_connectivity_nodes", severity |-> "high",
                description |-> Cardinality(high_degree_nodes),
                details |-> [node \in high_degree_nodes |-> Degree(graph, node)]]>>
        ELSE <<>>

\* detect_suspicious_activities with data loaded: the list `suspicious`
DetectSuspicious(df, graph) ==
    UnusualTiming(df) \o ShortDurationPattern(df)
        \o HighFrequencyCommunication(df) \o HighConnectivityNodes(graph)

\* value_counts().sort_index() of the hour column, then nlargest(3) /
\* nsmallest(3) (keep='first': among equal counts the earlier hour)
HourlyCounts(rows) ==
    [hour \in {HourOf(rows[i]) : i \in 1..Len(rows)} \ {NaN} |->
        Cardinality({i \in 1..Len(rows) : HourOf(rows[i]) = hour})]

RECURSIVE PickHours(_, _, _, _)
PickHours(counts, hours, n, largest) ==
    IF n = 0 \/ hours = {} THEN <<>>
    ELSE LET Better(h, g) ==
                 \/ (IF largest THEN counts[h] > counts[g] ELSE counts[h] < counts[g])
                 \/ (counts[h] = counts[g] /\ h <= g)
             best == CHOOSE h \in hours : \A g \in hours : Better(h, g)
         IN  <<best>> \o PickHours(counts, hours \ {best}, n - 1, largest)

\* Mutant: without a timestamp column the result is a histogram of no
\* record.
AnalyzeTimePatterns_EmptyHistogram(df) ==
    LET hourly_counts == IF "timestamp" \in df.cols THEN HourlyCounts(df.rows) ELSE <<>>
    IN  [hourly_distribution |-> hourly_counts,
         peak_hours |-> PickHours(hourly_counts, DOMAIN hourly_counts, BusiestHours, TRUE),
         quiet_hours |-> PickHours(hourly_counts, DOMAIN hourly_counts, BusiestHours, FALSE)]

\* _analyze_time_patterns, its result (the hour column it adds to
\* self.data is in AnalyzePatterns)
AnalyzeTimePatterns(df) ==
    IF "timestamp" \notin df.cols THEN EmptyDict
    ELSE LET hourly_counts == HourlyCounts(df.rows)
         IN  [hourly_distribution |-> hourly_counts,
              peak_hours |-> PickHours(hourly_counts, DOMAIN hourly_counts, BusiestHours, TRUE),
              quiet_hours |-> PickHours(hourly_counts, DOMAIN hourly_counts, BusiestHours, FALSE)]

\* the sum of the durations of the records first to last
RECURSIVE SumDurations(_, _, _)
SumDurations(rows, first, last) ==
    IF first > last THEN 0
    ELSE IF first = last THEN rows[first]["duration"]
    ELSE SumDurations(rows, first, (first + last) \div 2)
            + SumDurations(rows, (first + last) \div 2 + 1, last)

\* analyze_communication_patterns with data loaded: whether it returned,
\* self.data after it and the patterns.  avg_duration is the exact
\* quotient [sum, count]; the mean of pd.Series([0]) when there is no
\* duration column.  top_communicators and communication_frequency are
\* derived values no state depends on and are left out.
AnalyzePatterns(df) ==
    IF NotDatetime(df) THEN [returned |-> FALSE, data |-> df, patterns |-> EmptyDict]
    ELSE [returned |-> TRUE,
          data |-> IF "timestamp" \in df.cols
                   THEN Frame(df.cols \cup {"hour"},
                              [i \in 1..Len(df.rows) |->
                                  ("hour" :> HourOf(df.rows[i])) @@ df.rows[i]])
                   ELSE df,
          patterns |->
              [total_communications |-> Len(df.rows),
               unique_a_parties |-> Cardinality({df.rows[i]["a_party"] : i \in 1..Len(df.rows)}),
               unique_b_parties |-> Cardinality({df.rows[i]["b_party"] : i \in 1..Len(df.rows)}),
               avg_duration |-> IF "duration" \in df.cols
                                THEN [sum |-> SumDurations(df.rows, 1, Len(df.rows)),
                                      count |-> Len(df.rows)]
                                ELSE [sum |-> 0, count |-> 1],
               busiest_hours |-> AnalyzeTimePatterns(df)]]

\* Mutant: a record from the entity to itself is not collected a second
\* time as a received one.
Received_FromOthers(df, entity_id) ==
    LET IsRecipient(row) == row["b_party"] = entity_id /\ row["a_party"] # entity_id
    IN  SelectSeq(df.rows, IsRecipient)

\* self.data[self.data['b_party'] == entity_id].to_dict('records')
Received(df, entity_id) ==
    LET IsRecipient(row) == row["b_party"] = entity_id
    IN  SelectSeq(df.rows, IsRecipient)

\* Mutant: the time range is that of all the records loaded.
TimeRange_OfAllRecords(df, all_records) ==
    LET timestamps == {df.rows[i]["timestamp"].value : i \in 1..Len(df.rows)}
    IN  IF Len(df.rows) > 0 /\ "timestamp" \in df.cols
        THEN [first |-> CHOOSE t \in timestamps : \A u \in timestamps : t <= u,
              last |-> CHOOSE t \in timestamps : \A u \in timestamps : t >= u]
        ELSE None

\* results['time_range'] from the records found (every timestamp of a
\* loaded record is truthy)
TimeRange(df, all_records) ==
    LET timestamps == {all_records[i]["timestamp"].value : i \in 1..Len(all_records)}
    IN  IF Len(all_records) > 0 /\ "timestamp" \in df.cols
        THEN [first |-> CHOOSE t \in timestamps : \A u \in timestamps : t <= u,
              last |-> CHOOSE t \in timestamps : \A u \in timestamps : t >= u]
        ELSE None

\* search_entity with data loaded; communication_partners is the list of a
\* set, in no particular order
SearchResults(df, entity_id, entity_type) ==
    LET IsInitiator(row) == row["a_party"] = entity_id
        as_initiator == IF entity_type \in {"both", "initiator"}
                        THEN SelectSeq(df.rows, IsInitiator) ELSE <<>>
        as_recipient == IF entity_type \in {"both", "recipient"}
                        THEN Received(df, entity_id) ELSE <<>>
    IN  [entity_id |-> entity_id,
         as_initiator |-> as_initiator,
         as_recipient |-> as_recipient,
         total_communications |-> Len(as_initiator) + Len(as_recipient),
         communication_partners |->
             {as_initiator[i]["b_party"] : i \in 1..Len(as_initiator)}
                 \cup {as_recipient[i]["a_party"] : i \in 1..Len(as_recipient)},
         time_range |-> TimeRange(df, as_initiator \o as_recipient)]

----------------------------------------------------------------------------
(* Specification SpecAnalyzer: files are parsed and relationships are      *)
(* extracted, in any order.                                                *)

MaxAnalyzerRecords == 3
MaxCalls == 2

PartyInt552 == IntCell(<<"5","5","2">>)

\* The records of the files, by their normalised column names: three
\* records between 551 and 552 in both directions, and a record from the
\* number 552 read as an integer whose timestamp is no date.
AnalyzerRows ==
    { [a_party |-> Party551, b_party |-> Party552, timestamp |-> TimestampText(10),
       duration |-> 3, service_type |-> "VOICE"],
      [a_party |-> Party551, b_party |-> Party552, timestamp |-> TimestampText(11),
       duration |-> 400, service_type |-> "VOICE"],
      [a_party |-> Party552, b_party |-> Party551, timestamp |-> TimestampText(11),
       duration |-> 2, service_type |-> "VOICE"],
      [a_party |-> PartyInt552, b_party |-> Party553, timestamp |-> TimestampText(BadValue),
       duration |-> 7, service_type |-> "SMS"] }

\* The column names of a file, by the names they are normalised to
CanonicalHeader ==
    [name \in KeyColumns |-> name]
TelecomHeader ==
    [name \in KeyColumns |->
        CASE name = "a_party" -> "calling_number"
          [] name = "b_party" -> "called_number"
          [] name = "duration" -> "call_duration"
          [] name = "timestamp" -> "call_time"
          [] OTHER -> name]

\* pd.read_csv / pd.json_normalize of a file with that header and records
RawFrame(header, rows) ==
    Frame({header[name] : name \in KeyColumns},
          [i \in 1..Len(rows) |->
              [raw_name \in {header[name] : name \in KeyColumns} |->
                  rows[i][CHOOSE name \in KeyColumns : header[name] = raw_name]]])

\* A file that cannot be opened or read (missing, empty, malformed JSON)
UnreadableFile == [readable |-> FALSE, frame |-> EmptyFrame]

Files ==
    {UnreadableFile} \cup
    {[readable |-> TRUE, frame |-> RawFrame(header, rows)] :
        header \in {CanonicalHeader, TelecomHeader},
        rows \in SeqsUpTo(AnalyzerRows, MaxAnalyzerRecords)}

\* The records of the files of specification SpecSession: a star of
\* `peers` records from a hub, each to another party, a record from the hub
\* to itself, `repeats` records from 551 to 552 of one duration, `shorts`
\* records of three seconds, `fillers` long records, a record at 23:00.
MaxPeers == 21
MaxRepeats == 51
MaxShorts == 2
MaxSessionCalls == 3

PartyHub == StrCell(<<"7","0","0">>)
PartyUnseen == StrCell(<<"9","9","9">>)
PartyPeer(i) ==
    LET digits == <<"0","1","2","3","4","5","6","7","8","9">>
    IN  StrCell(<<"8", digits[(i \div 10) + 1], digits[(i % 10) + 1]>>)

SessionRecord(a_party, b_party, hour, duration) ==
    [a_party |-> a_party, b_party |-> b_party, timestamp |-> TimestampText(hour),
     duration |-> duration, service_type |-> "VOICE"]

SessionRows(peers, self_pair, repeats, repeat_duration, shorts, fillers, night) ==
    [i \in 1..peers |-> SessionRecord(PartyHub, PartyPeer(i), 6 + (i % 12), 400)]
    \o (IF self_pair THEN <<SessionRecord(PartyHub, PartyHub, 7, 400)>> ELSE <<>>)
    \o [i \in 1..repeats |-> SessionRecord(Party551, Party552, 8, repeat_duration)]
    \o [i \in 1..shorts |-> SessionRecord(Party553, Party551, 9, 3)]
    \o [i \in 1..fillers |-> SessionRecord(Party553, Party552, 12, 400)]
    \o (IF night THEN <<SessionRecord(Party552, Party553, 23, 400)>> ELSE <<>>)

\* Small files with every combination of the optional columns, around one
\* short record in ten; large files around 20 neighbours and 50 records of
\* a pair; a file whose timestamp is no date.
SessionFiles ==
    {[readable |-> TRUE,
      frame |-> LET rows == SessionRows(0, FALSE, 0, 400, shorts, 9 * tens, night)
                IN  Frame(KeyColumns \ dropped,
                          [i \in 1..Len(rows) |-> Project(rows[i], KeyColumns \ dropped)])] :
        shorts \in 0..MaxShorts, tens \in 0..MaxShorts, night \in BOOLEAN,
        dropped \in SUBSET {"timestamp", "duration"}}
    \cup
    {[readable |-> TRUE,
      frame |-> Frame(KeyColumns,
                      SessionRows(peers, self_pair, repeats, repeat_duration, 0, 0, night))] :
        peers \in (MaxPeers - 2)..MaxPeers, self_pair \in BOOLEAN,
        repeats \in (MaxRepeats - 1)..MaxRepeats, repeat_duration \in {3, 400},
        night \in BOOLEAN}
    \cup
    {[readable |-> TRUE,
      frame |-> Frame(KeyColumns, <<SessionRecord(Party551, Party552, BadValue, 400)>>)]}

\* The files of specification SpecReload: two records between 551 and 552,
\* one in each direction; one record of that pair under the column names of
\* a telecom export; a record between 553 and 552; a record from 551 to
\* itself; and a file that cannot be read.
ReloadFiles ==
    {UnreadableFile} \cup
    {[readable |-> TRUE, frame |-> RawFrame(header, rows)] :
        header \in {CanonicalHeader},
        rows \in { <<SessionRecord(Party551, Party552, 10, 3),
                     SessionRecord(Party552, Party551, 9, 2)>>,
                   <<SessionRecord(Party553, Party552, 12, 400)>>,
                   <<SessionRecord(Party551, Party551, 7, 60)>> }}
    \cup
    {[readable |-> TRUE,
      frame |-> RawFrame(TelecomHeader, <<SessionRecord(Party551, Party552, 11, 400)>>)]}

\* _normalize_columns on the frame read from each file of the specifications
NormalizedFiles ==
    [file \in Files \cup SessionFiles \cup ReloadFiles |-> NormalizeColumns(file.frame)]

\* parse_ipdr_file: what it returns and self.data after it, self.data being
\* `before` at the call.  Reading an unreadable or malformed file raises
\* before self.data is assigned; self.data is assigned before
\* _normalize_columns is called.
ParseOutcome(before, file) ==
    IF ~file.readable THEN [result |-> "False", data |-> before]
    ELSE LET normalized == NormalizedFiles[file]
         IN  [result |-> IF normalized.returned THEN "True" ELSE "False",
              data |-> normalized.data]

AnalyzerInit ==
    /\ ScoreIdle
    /\ NoiseIdle
    /\ FilterIdle
    /\ data = None
    /\ network_graph = EmptyGraph
    /\ communication_patterns = EmptyDict
    /\ suspicious_activities = <<>>
    /\ search_result = None
    /\ parse_result = "none"
    /\ a_last = "new"
    /\ a_calls = 0
    /\ a_runs = 0

\* parse_result = analyzer.parse_ipdr_file(file_path), one of at most
\* max_calls calls, on one of these files
Parse(files, max_calls) ==
    /\ a_calls < max_calls
    /\ \E file \in files :
          LET outcome == ParseOutcome(data, file)
          IN  /\ data' = outcome.data
              /\ parse_result' = outcome.result
    /\ a_last' = "parse"
    /\ a_calls' = a_calls + 1
    /\ UNCHANGED <<network_graph, a_runs, communication_patterns, suspicious_activities, search_result>>
    /\ UNCHANGED <<score_vars, noise_vars, filter_vars>>

ParseFile == Parse(Files, MaxCalls)

\* Mutant: extract_relationships starts from an empty graph.
Extract_ResetsGraph(max_calls) ==
    /\ a_calls < max_calls
    /\ IF data = None
       THEN UNCHANGED <<network_graph, a_runs>>
       ELSE /\ network_graph' = ExtractLoop(EmptyGraph, data.rows, Len(data.rows))
            /\ a_runs' = a_runs + 1
    /\ a_last' = "extract"
    /\ a_calls' = a_calls + 1
    /\ UNCHANGED <<data, parse_result, communication_patterns, suspicious_activities, search_result>>
    /\ UNCHANGED <<score_vars, noise_vars, filter_vars>>

\* analyzer.extract_relationships(), one of at most max_calls calls
Extract(max_calls) ==
    /\ a_calls < max_calls
    /\ IF data = None
       THEN UNCHANGED <<network_graph, a_runs>>
       ELSE /\ network_graph' = ExtractLoop(network_graph, data.rows, Len(data.rows))
            /\ a_runs' = a_runs + 1
    /\ a_last' = "extract"
    /\ a_calls' = a_calls + 1
    /\ UNCHANGED <<data, parse_result, communication_patterns, suspicious_activities, search_result>>
    /\ UNCHANGED <<score_vars, noise_vars, filter_vars>>

ExtractRelationships == Extract(MaxCalls)

AnalyzerNext == ParseFile \/ ExtractRelationships

SpecAnalyzer == AnalyzerInit /\ [][AnalyzerNext]_vars

----------------------------------------------------------------------------
(* Specification SpecReload: one analyzer object parses files and extracts *)
(* relationships several times over.                                       *)

MaxReloadCalls == 5

ReloadParse == Parse(ReloadFiles, MaxReloadCalls)

ReloadExtract == Extract(MaxReloadCalls)

ReloadNext == ReloadParse \/ ReloadExtract

SpecReload == AnalyzerInit /\ [][ReloadNext]_vars

----------------------------------------------------------------------------
(* Specification SpecSession: an investigation session.  One file is       *)
(* loaded; relationships are extracted, patterns analysed, suspicious      *)
(* activities detected and entities searched, in any order, before or      *)
(* after the file is loaded.                                               *)

\* self.data after a file of the session is loaded, and after
\* _analyze_time_patterns has added the hour column to it
SessionFrames ==
    {NormalizedFiles[file].data : file \in SessionFiles}
        \cup {AnalyzePatterns(NormalizedFiles[file].data).data : file \in SessionFiles}

\* analyze_communication_patterns on each of them
AnalyzedFrames == [df \in SessionFrames |-> AnalyzePatterns(df)]

\* Mutant: a rule is evaluated only when the rules before it found
\* nothing.
RecordFindings_FirstRuleOnly ==
    [df \in SessionFrames |->
        IF UnusualTiming(df) # <<>> THEN UnusualTiming(df)
        ELSE IF ShortDurationPattern(df) # <<>> THEN ShortDurationPattern(df)
        ELSE HighFrequencyCommunication(df)]

\* The findings of the three rules that read self.data, in the order they
\* are appended
RecordFindings ==
    [df \in SessionFrames |->
        UnusualTiming(df) \o ShortDurationPattern(df) \o HighFrequencyCommunication(df)]

SearchIds == {PartyHub, Party553, PartyUnseen}

SessionInit ==
    /\ ScoreIdle
    /\ NoiseIdle
    /\ FilterIdle
    /\ data = None
    /\ network_graph = EmptyGraph
    /\ communication_patterns = EmptyDict
    /\ suspicious_activities = <<>>
    /\ search_result = None
    /\ parse_result = "none"
    /\ a_last = "new"
    /\ a_calls = 0
    /\ a_runs = 0

\* analyzer.parse_ipdr_file(file_path), once in a session
LoadRecords ==
    /\ a_calls < MaxSessionCalls
    /\ data = None
    /\ \E file \in SessionFiles :
          LET outcome == ParseOutcome(data, file)
          IN  /\ data' = outcome.data
              /\ parse_result' = outcome.result
    /\ a_last' = "parse"
    /\ a_calls' = a_calls + 1
    /\ UNCHANGED <<network_graph, a_runs, communication_patterns, suspicious_activities, search_result>>
    /\ UNCHANGED <<score_vars, noise_vars, filter_vars>>

\* analyzer.extract_relationships()
SessionExtract == Extract(MaxSessionCalls)

\* analyzer.analyze_communication_patterns(): returns None without data,
\* raises when the timestamps are no datetimes
AnalyzeCommunicationPatterns ==
    /\ a_calls < MaxSessionCalls
    /\ IF data = None
       THEN UNCHANGED <<data, communication_patterns>>
       ELSE LET outcome == AnalyzedFrames[data]
            IN  /\ data' = outcome.data
                /\ communication_patterns' =
                       IF outcome.returned THEN outcome.patterns ELSE communication_patterns
    /\ a_last' = "analyze"
    /\ a_calls' = a_calls + 1
    /\ UNCHANGED <<network_graph, parse_result, a_runs, suspicious_activities, search_result>>
    /\ UNCHANGED <<score_vars, noise_vars, filter_vars>>

\* analyzer.detect_suspicious_activities(): returns [] without data, raises
\* when the timestamps are no datetimes, else assigns the list it returns
DetectSuspiciousActivities ==
    /\ a_calls < MaxSessionCalls
    /\ IF data = None \/ NotDatetime(data)
       THEN UNCHANGED suspicious_activities
       ELSE suspicious_activities' =
                RecordFindings[data] \o HighConnectivityNodes(network_graph)
    /\ a_last' = "detect"
    /\ a_calls' = a_calls + 1
    /\ UNCHANGED <<data, network_graph, parse_result, a_runs, communication_patterns, search_result>>
    /\ UNCHANGED <<score_vars, noise_vars, filter_vars>>

\* search_result = analyzer.search_entity(entity_id): {} without data
SearchEntity ==
    /\ a_calls < MaxSessionCalls
    /\ \E entity_id \in SearchIds :
          search_result' = IF data = None THEN EmptyDict
                           ELSE SearchResults(data, entity_id, "both")
    /\ a_last' = "search"
    /\ a_calls' = a_calls + 1
    /\ UNCHANGED <<data, network_graph, parse_result, a_runs, communication_patterns, suspicious_activities>>
    /\ UNCHANGED <<score_vars, noise_vars, filter_vars>>

SessionNext ==
    \/ LoadRecords
    \/ SessionExtract
    \/ AnalyzeCommunicationPatterns
    \/ DetectSuspiciousActivities
    \/ SearchEntity

SpecSession == SessionInit /\ [][SessionNext]_vars

----------------------------------------------------------------------------
(* Claims about the relevance scorer (specification SpecScore)             *)

\* C2: calculate_relevance_score returns a value in [0,1] for every row and
\* every context, also when all six features have their maximum subscore
\* and when a feature computation raises.
C2_ScoreInUnitInterval ==
    s_pc = "returned" => (0 <= s_score /\ s_score <= ScoreOne)

\* All six features are in use at subscore 1.0 and the score is 1.0.
C2_Witness_AllFeaturesAtMaximum ==
    /\ s_pc = "returned"
    /\ s_row = MakeRow(200, 2, "VOICE")
    /\ s_ctx = MakeContext(20, 80, {MakeGeo(5000, TRUE, TRUE)})
    /\ s_score = ScoreOne

\* The subscore tables of the design, in tenths
TableDuration(d) ==
    CASE d < 1 -> 3 [] d >= 1 /\ d < 30 -> 6 [] d >= 30 /\ d < 300 -> 10
      [] d >= 300 /\ d < 1800 -> 8 [] OTHER -> 4
TableFrequency(f) ==
    CASE f = 1 -> 5 [] f # 1 /\ f <= 5 -> 7 [] f > 5 /\ f <= 20 -> 10
      [] f > 20 /\ f <= 100 -> 8 [] OTHER -> 6
TableTiming(t) ==
    CASE Hour(t) \in {22, 23} \cup 0..6 -> 10
      [] Hour(t) \in 7..21 /\ Weekday(t) >= 5 -> 8
      [] Hour(t) \in 9..17 /\ Weekday(t) < 5 -> 6
      [] OTHER -> 7
TableGeographic(g) ==
    LET raw == 5 + (IF ~Has(g, "distance_km") THEN 0
                    ELSE IF g["distance_km"] > 1000 THEN 3
                    ELSE IF g["distance_km"] > 100 THEN 2 ELSE 1)
                 + (IF Has(g, "cross_border") /\ g["cross_border"] THEN 2 ELSE 0)
                 + (IF Has(g, "international") /\ g["international"] THEN 3 ELSE 0)
    IN  IF raw > 10 THEN 10 ELSE raw
TableService(s) ==
    CASE s \in {"VOICE", "voice"} -> 10 [] s \in {"SMS", "sms"} -> 9 [] s = "MMS" -> 8
      [] s = "DATA" -> 6 [] s = "ROAMING" -> 7 [] OTHER -> 5
TableRisk(r) ==
    CASE r >= 80 -> 10 [] r >= 60 /\ r < 80 -> 8 [] r >= 40 /\ r < 60 -> 6
      [] r >= 20 /\ r < 40 -> 4 [] OTHER -> 2

\* The inputs the tables are defined on: every value in use is well typed.
WellTypedScoreInput ==
    /\ ~ScoreRaises(s_row, s_ctx)
    /\ Has(s_row, "timestamp") => s_row["timestamp"] # BadValue

\* C3: the score is the sum, over the features whose input is present only,
\* of default weight times table subscore, with no renormalisation; a row
\* with duration 200 and nothing else scores exactly 0.15.
C3_ScoreIsPlainWeightedSum ==
    (s_pc = "returned" /\ WellTypedScoreInput) =>
        /\ s_score =
              (IF Has(s_row, "duration") /\ s_row["duration"] # NaN
               THEN 15 * TableDuration(s_row["duration"]) ELSE 0)
            + (IF Has(s_ctx, "entity_frequency")
               THEN 25 * TableFrequency(s_ctx["entity_frequency"]) ELSE 0)
            + (IF Has(s_row, "timestamp") /\ s_row["timestamp"] # NaN
               THEN 20 * TableTiming(s_row["timestamp"]) ELSE 0)
            + (IF Has(s_ctx, "geographic_context")
               THEN 15 * TableGeographic(s_ctx["geographic_context"]) ELSE 0)
            + (IF Has(s_row, "service_type") /\ s_row["service_type"] # NoService
               THEN 10 * TableService(s_row["service_type"]) ELSE 0)
            + (IF Has(s_ctx, "risk_score")
               THEN 15 * TableRisk(s_ctx["risk_score"]) ELSE 0)
        /\ (s_row = MakeRow(200, Absent, AbsentService) /\ s_ctx = NoContext)
              => s_score = 150

\* The row of the example has been scored.
C3_Witness_DurationOnlyRow ==
    /\ s_pc = "returned"
    /\ s_row = MakeRow(200, Absent, AbsentService)
    /\ s_ctx = NoContext
    /\ s_score = 150

----------------------------------------------------------------------------
(* Claims about the Noise Reducer (specification SpecNoise)                *)

\* C4: the Noise Reducer is idempotent: run on its own output it removes no
\* further record.
C4_NoiseReductionIdempotent ==
    n_pc = "twice" => n_twice = n_once

\* The first run removed a duplicate and a row out of bounds, and the second
\* run was made on what was left.
C4_Witness_SecondRunAfterRemovals ==
    /\ n_pc = "twice"
    /\ Len(n_df.rows) = MaxNoiseRecords
    /\ Len(n_once.rows) = 1
    /\ "duration" \in n_df.cols
    /\ \E i, j \in 1..Len(n_df.rows) : i < j /\ n_df.rows[i] = n_df.rows[j]
    /\ \E i \in 1..Len(n_df.rows) : n_df.rows[i]["duration"] > MaxDurationThreshold

----------------------------------------------------------------------------
(* Claims about apply_filters (specification SpecFilter)                   *)

\* The frame the filters of the call start from: the noise-reduced records
\* with their scores (df_clean).
NoiseReducedInput == CleanFrames[f_input, f_context]

\* The rows of a frame on the columns of the scored records
CoreRows(frame) ==
    [i \in 1..Len(frame.rows) |->
        Project(frame.rows[i], KeyColumns \cup {"relevance_score"})]

RowSet(rows) == {rows[i] : i \in 1..Len(rows)}

\* C5: with no active filter (an empty list, or only inactive entries)
\* apply_filters returns as kept exactly the noise-reduced records in
\* non-increasing order of relevance score, and removed is empty.
C5_NoActiveFilterKeepsNoiseReduced ==
    (f_pc = "filtered" /\ \A i \in 1..Len(filters) : ~filters[i].is_active) =>
        /\ Len(f_kept.rows) = Len(NoiseReducedInput.rows)
        /\ RowSet(f_kept.rows) = RowSet(NoiseReducedInput.rows)
        /\ \A i, j \in 1..Len(f_kept.rows) :
              i < j => f_kept.rows[i]["relevance_score"] >= f_kept.rows[j]["relevance_score"]
        /\ Len(f_removed.rows) = 0

\* The list holds an inactive time filter only; the frame had a row the
\* Noise Reducer dropped and an off-peak row, which is kept.
C5_Witness_OnlyInactiveFilter ==
    /\ f_pc = "filtered"
    /\ Len(filters) = 1
    /\ ~filters[1].is_active
    /\ filters[1].filter_type = "time_based"
    /\ Len(f_input.rows) = 2
    /\ Len(f_kept.rows) = 1
    /\ f_kept.rows[1]["timestamp"] = 2

\* The filter list without the filters whose stage raises on this frame
RECURSIVE WithoutRaising(_, _)
WithoutRaising(frame, filter_list) ==
    IF filter_list = <<>> THEN <<>>
    ELSE IF FilterRaises(frame, Head(filter_list))
         THEN WithoutRaising(frame, Tail(filter_list))
         ELSE <<Head(filter_list)>> \o WithoutRaising(frame, Tail(filter_list))

\* C6: a filter stage that raises returns its input kept set unchanged and
\* adds nothing to removed, and the remaining active filters are applied:
\* the call gives what it gives with the raising filters taken off the list.
C6_RaisingStagePassesThrough ==
    (f_pc = "filtered" /\ ~IsEmpty(f_input)) =>
        LET good == WithoutRaising(NoiseReducedInput, filters)
            expected == FilterLoop(NoiseReducedInput, good, Len(good))
        IN  /\ f_unsorted = expected.filtered
            /\ f_removed = expected.removed

\* A custom filter whose second condition raises is followed by a risk
\* filter: the SMS row, which the first condition of the custom filter
\* rejects, is kept, and the risk filter has removed the other row.
C6_Witness_RaisingFilterThenRiskFilter ==
    /\ f_pc = "filtered"
    /\ Len(filters) = 2
    /\ filters[1].name = "Bad Range"
    /\ FilterRaises(NoiseReducedInput, filters[1])
    /\ filters[2].name = "Risk 40"
    /\ Len(f_kept.rows) = 1
    /\ f_kept.rows[1]["service_type"] = "SMS"
    /\ Len(f_removed.rows) = 1

\* The frames of a call whose list holds exactly two filters, both active,
\* applied one after the other, the second to what the first has kept
FirstStage == ApplySingleFilter(NoiseReducedInput, filters[1])
SecondStage == ApplySingleFilter(FirstStage.filtered, filters[2])
\* The same two filters in the other order
SwappedFirstStage == ApplySingleFilter(NoiseReducedInput, filters[2])
SwappedSecondStage == ApplySingleFilter(SwappedFirstStage.filtered, filters[1])

TwoActiveFilters ==
    /\ f_pc = "filtered"
    /\ ~IsEmpty(f_input)
    /\ Len(filters) = 2
    /\ filters[1].is_active
    /\ filters[2].is_active

\* C7: the active filters are applied in list order, each to the kept set
\* the previous one left and not to the original set (and the order of the
\* filters changes the result: the witness).
C7_EachFilterOnPreviousKeptSet ==
    TwoActiveFilters =>
        /\ CoreRows(f_unsorted) = CoreRows(SecondStage.filtered)
        /\ RowSet(CoreRows(f_kept)) = RowSet(CoreRows(SecondStage.filtered))

\* Two active filters, one of them frequency-based, for which the other
\* order gives another kept set.
C7_Witness_SwapChangesKept ==
    /\ TwoActiveFilters
    /\ filters[1].filter_type = "frequency_based"
    /\ RowSet(CoreRows(f_kept)) # RowSet(CoreRows(SwappedSecondStage.filtered))

\* The rows each entry of the list removes, entry after entry, each entry
\* working on what the entries before it kept
RECURSIVE RemovedInOrder(_, _)
RemovedInOrder(frame, filter_list) ==
    IF filter_list = <<>> THEN <<>>
    ELSE IF Head(filter_list).is_active
         THEN LET stage == ApplySingleFilter(frame, Head(filter_list))
              IN  CoreRows(stage.removed) \o RemovedInOrder(stage.filtered, Tail(filter_list))
         ELSE RemovedInOrder(frame, Tail(filter_list))

PositionBeforeSort(row) == CHOOSE i \in 1..Len(f_unsorted.rows) : f_unsorted.rows[i] = row

\* C9: kept is sorted by relevance score in non-increasing order, and two
\* kept records of equal score keep the relative order they had before the
\* sort.
C9_KeptSortedAndStable ==
    (f_pc = "filtered" /\ ~IsEmpty(f_input)) =>
        /\ SortedByScore(f_kept.rows)
        /\ \A i, j \in 1..Len(f_kept.rows) :
              (i < j /\ f_kept.rows[i]["relevance_score"] = f_kept.rows[j]["relevance_score"])
                  => PositionBeforeSort(f_kept.rows[i]) < PositionBeforeSort(f_kept.rows[j])

----------------------------------------------------------------------------
(* Claims about the analyzer (specification SpecAnalyzer)                  *)

\* The identifiers of the records: what str() gives of a party cell
PartyIdentifiers ==
    {Str(row["a_party"]) : row \in AnalyzerRows} \cup {Str(row["b_party"]) : row \in AnalyzerRows}

\* The positions of the loaded records whose parties are a and b, in
\* either direction
RecordsBetween(a, b) ==
    {i \in 1..Len(data.rows) :
        {Str(data.rows[i]["a_party"]), Str(data.rows[i]["b_party"])} = {a, b}}

\* The sum of the durations of the records at these positions
RECURSIVE SumOfDurations(_)
SumOfDurations(positions) ==
    IF positions = {} THEN 0
    ELSE LET i == CHOOSE k \in positions : TRUE
         IN  data.rows[i]["duration"] + SumOfDurations(positions \ {i})

\* C1: after extract_relationships has run once over the loaded records,
\* for every pair of identifiers (a,b) the undirected edge {a,b} has for
\* weight the number of records whose parties are a and b in either
\* direction and for total_duration the sum of their durations; there is
\* no edge between identifiers no record joins.
C1_EdgeCountsRecordsOfBothDirections ==
    (a_last = "extract" /\ a_runs = 1) =>
        \A a, b \in PartyIdentifiers :
            IF RecordsBetween(a, b) = {}
            THEN {a, b} \notin DOMAIN network_graph.edges
            ELSE /\ {a, b} \in DOMAIN network_graph.edges
                 /\ network_graph.edges[{a, b}].weight = Cardinality(RecordsBetween(a, b))
                 /\ network_graph.edges[{a, b}].total_duration
                        = SumOfDurations(RecordsBetween(a, b))

\* The records 551->552 (3 s), 551->552 (400 s) and 552->551 (2 s) have
\* given one edge of weight 3 and total duration 405.
C1_Witness_ThreeRecordsOneEdge ==
    /\ a_last = "extract"
    /\ a_runs = 1
    /\ Len(data.rows) = 3
    /\ \E i \in 1..3 : Str(data.rows[i]["a_party"]) = Str(Party552)
    /\ DOMAIN network_graph.edges = {{Str(Party551), Str(Party552)}}
    /\ network_graph.edges[{Str(Party551), Str(Party552)}].weight = 3
    /\ network_graph.edges[{Str(Party551), Str(Party552)}].total_duration = 405

\* C10: when parse_ipdr_file returns False, self.data is what it was
\* before the call, also when the failure happens in the normalisation of
\* the columns or the coercion of the timestamps.
C10_FailedParseRetainsNothing ==
    [][(a_calls' # a_calls /\ a_last' = "parse" /\ parse_result' = "False")
          => data' = data]_vars

\* C11: for every edge {a,b} of the graph, first_contact is the earliest
\* timestamp among the records linking a and b, whatever the order in
\* which the records are processed.
C11_FirstContactIsEarliest ==
    (a_last = "extract" /\ a_runs = 1 /\ parse_result = "True") =>
        \A a, b \in PartyIdentifiers :
            RecordsBetween(a, b) # {} =>
                \A i \in RecordsBetween(a, b) :
                    network_graph.edges[{a, b}].first_contact.value
                        <= data.rows[i]["timestamp"].value

----------------------------------------------------------------------------
(* Claims about search_entity (specification SpecSession)                  *)

\* The records of self.data whose a_party, whose b_party is the identifier
RecordsFrom(entity_id) ==
    {i \in 1..Len(data.rows) : data.rows[i]["a_party"] = entity_id}
RecordsTo(entity_id) ==
    {i \in 1..Len(data.rows) : data.rows[i]["b_party"] = entity_id}

Searched == a_last = "search" /\ data # None

\* C12: a search for an identifier that no loaded record has as a_party or
\* as b_party returns total_communications 0, no partner, empty
\* as_initiator and as_recipient and no time_range.
C12_UnseenIdentifierFindsNothing ==
    (/\ Searched
     /\ RecordsFrom(search_result.entity_id) = {}
     /\ RecordsTo(search_result.entity_id) = {}) =>
        /\ search_result.total_communications = 0
        /\ search_result.communication_partners = {}
        /\ search_result.as_initiator = <<>>
        /\ search_result.as_recipient = <<>>
        /\ search_result.time_range = None

C12_Witness_UnseenAmongRecords ==
    /\ Searched
    /\ Len(data.rows) > 0
    /\ "timestamp" \in data.cols
    /\ RecordsFrom(search_result.entity_id) \cup RecordsTo(search_result.entity_id) = {}
    /\ search_result.total_communications = 0

\* C18: search_entity(x) with the default role returns as
\* total_communications the number of records with a_party = x plus the
\* number of records with b_party = x (a record from x to x counts twice)
\* and as partners the b_party values of the former together with the
\* a_party values of the latter.
C18_TotalAndPartnersOfBothRoles ==
    Searched =>
        LET x == search_result.entity_id
        IN  /\ search_result.total_communications
                  = Cardinality(RecordsFrom(x)) + Cardinality(RecordsTo(x))
            /\ search_result.communication_partners
                  = {data.rows[i]["b_party"] : i \in RecordsFrom(x)}
                        \cup {data.rows[i]["a_party"] : i \in RecordsTo(x)}

C18_Witness_SelfPairCountedTwice ==
    /\ Searched
    /\ RecordsFrom(search_result.entity_id) \cap RecordsTo(search_result.entity_id) # {}
    /\ Cardinality(RecordsFrom(search_result.entity_id)) > 1
    /\ search_result.entity_id \in search_result.communication_partners
    /\ search_result.total_communications
          = Cardinality(RecordsFrom(search_result.entity_id)
                            \cup RecordsTo(search_result.entity_id)) + 1

----------------------------------------------------------------------------
(* Claims about detect_suspicious_activities (specification SpecSession)   *)

\* detect_suspicious_activities has just returned its findings for the
\* records loaded
Detected == a_last = "detect" /\ data # None /\ ~NotDatetime(data)

\* The types of the findings, in the order of the list
FindingTypes == [i \in 1..Len(suspicious_activities) |-> suspicious_activities[i].type]

Reported(type) == \E i \in 1..Len(suspicious_activities) : suspicious_activities[i].type = type

\* The records of at most five seconds
ShortRecords ==
    IF "duration" \in data.cols
    THEN {i \in 1..Len(data.rows) :
             data.rows[i]["duration"] # NaN /\ data.rows[i]["duration"] <= 5}
    ELSE {}

\* C13: the short-duration finding is reported exactly when the records
\* of at most five seconds are strictly more than one tenth of all the
\* records (ten times their number exceeds the total).
C13_ShortDurationAboveOneTenth ==
    Detected =>
        (Reported("short_duration_pattern")
            <=> 10 * Cardinality(ShortRecords) > Len(data.rows))

C13_Witness_ExactlyOneTenth ==
    /\ Detected
    /\ Len(data.rows) = 10
    /\ Cardinality(ShortRecords) = 1
    /\ ~Reported("short_duration_pattern")

\* C14: when the loaded records have no timestamp, the unusual-timing rule
\* reports nothing and the time patterns are empty; when they have no
\* duration, the short-duration rule reports nothing, the mean duration is
\* 0 and every edge has total_duration 0; the operations return.
C14_AbsentFieldsAreSkipped ==
    /\ (Detected /\ "timestamp" \notin data.cols) => ~Reported("unusual_timing")
    /\ (Detected /\ "duration" \notin data.cols) => ~Reported("short_duration_pattern")
    /\ (a_last = "analyze" /\ data # None /\ "timestamp" \notin data.cols) =>
           /\ communication_patterns # EmptyDict
           /\ communication_patterns.busiest_hours = EmptyDict
    /\ (a_last = "analyze" /\ data # None /\ "duration" \notin data.cols) =>
           /\ communication_patterns # EmptyDict
           /\ communication_patterns.avg_duration.sum = 0
    /\ (a_runs > 0 /\ "duration" \notin data.cols) =>
           \A edge \in DOMAIN network_graph.edges :
               network_graph.edges[edge].total_duration = 0

C14_Witness_NeitherTimestampNorDuration ==
    /\ a_last = "analyze"
    /\ a_runs > 0
    /\ data.cols \cap {"timestamp", "duration"} = {}
    /\ Len(data.rows) > 10
    /\ DOMAIN network_graph.edges # {}
    /\ communication_patterns.total_communications = Len(data.rows)
    /\ communication_patterns.busiest_hours = EmptyDict
    /\ communication_patterns.avg_duration.sum = 0

\* The types of the findings of the four rules, in the order of the code
RuleTypes ==
    <<"unusual_timing", "short_duration_pattern",
      "high_frequency_communication", "high_connectivity_nodes">>

\* The records between 23:00 and 05:59
LateRecords ==
    IF "timestamp" \in data.cols
    THEN {i \in 1..Len(data.rows) :
             LET hour == data.rows[i]["timestamp"].value % 24
             IN  data.rows[i]["timestamp"].value # NaN /\ (hour >= 23 \/ hour <= 5)}
    ELSE {}

\* The records of the same ordered pair as record i
SamePair(i) ==
    {j \in 1..Len(data.rows) :
        /\ data.rows[j]["a_party"] = data.rows[i]["a_party"]
        /\ data.rows[j]["b_party"] = data.rows[i]["b_party"]}

\* C16: the findings of detect_suspicious_activities are at most one per
\* rule, in the order R1, R2, R3, R4, and each rule reports exactly when
\* its own condition holds, whatever the other rules report.
C16_RulesIndependentAndOrdered ==
    Detected =>
        /\ FindingTypes = SelectSeq(RuleTypes, Reported)
        /\ Reported("unusual_timing") <=> LateRecords # {}
        /\ Reported("short_duration_pattern")
              <=> 10 * Cardinality(ShortRecords) > Len(data.rows)
        /\ Reported("high_frequency_communication")
              <=> \E i \in 1..Len(data.rows) : Cardinality(SamePair(i)) > 50
        /\ Reported("high_connectivity_nodes")
              <=> \E node \in network_graph.nodes : Degree(network_graph, node) > 20

C16_Witness_AllFourRules ==
    /\ Detected
    /\ FindingTypes = RuleTypes

\* The distinct nodes joined to the node by an edge (the node itself when
\* a record pairs it with itself)
Neighbours(node) ==
    {other \in network_graph.nodes : {node, other} \in DOMAIN network_graph.edges}

\* C17: the high-connectivity finding is reported exactly when some node
\* of the graph has more than 20 distinct neighbours.
C17_HighConnectivityByDistinctNeighbours ==
    Detected =>
        (Reported("high_connectivity_nodes")
            <=> \E node \in network_graph.nodes : Cardinality(Neighbours(node)) > 20)

----------------------------------------------------------------------------
(* Claims about the caller's records                                       *)

\* C15: after apply_filters returns, the caller's frame holds the records
\* it held at the call, with the same fields and values.
C15_CallerRecordsUnchanged ==
    f_pc = "filtered" => caller_df = f_input

----------------------------------------------------------------------------
(* Claims about the filter stages (specification SpecFilter)               *)

\* The last filter of the list, and the kept and removed sets the filters
\* before it have left
LastFilter == filters[Len(filters)]
Preceding == FilterLoop(NoiseReducedInput, filters, Len(filters) - 1)

\* apply_filters has returned and the last filter of the list is an active
\* filter of that type with that criterion
LastFilterIs(filter_type, key) ==
    /\ f_pc = "filtered"
    /\ ~IsEmpty(f_input)
    /\ Len(filters) > 0
    /\ LastFilter.is_active
    /\ LastFilter.filter_type = filter_type
    /\ HasKey(LastFilter.criteria, key)

\* The kept rows of the call are those rows of the preceding kept set that
\* pass, and the removed rows are the preceding removed rows followed by
\* the other rows of the preceding kept set
StageSplits(passes) ==
    LET current == CoreRows(Preceding.filtered)
    IN  /\ CoreRows(f_unsorted) = [i \in 1..Len(passes) |-> current[passes[i]]]
        /\ RowSet(CoreRows(f_kept)) = {current[i] : i \in RowSet(passes)}
        /\ CoreRows(f_removed) =
              CoreRows(Preceding.removed)
                  \o SelectSeq(current, LAMBDA row : row \notin {current[i] : i \in RowSet(passes)})

\* C19: an active risk-based filter keeps a record of the current kept set
\* exactly when its relevance score is at least min_risk_score / 100, and
\* moves every other record to removed.
C19_RiskFilterKeepsScoresAtLeastThreshold ==
    LastFilterIs("risk_based", "min_risk_score") =>
        LET current == Preceding.filtered.rows
            Passes(i) == 100 * current[i]["relevance_score"]
                             >= 1000 * Get(LastFilter.criteria, "min_risk_score")
        IN  StageSplits(SelectSeq([i \in 1..Len(current) |-> i], Passes))

\* After a frequency filter that kept both records, the risk filter keeps
\* the one of score 0.410 and removes the one of score 0.370.
C19_Witness_OneKeptOneRemoved ==
    /\ LastFilterIs("risk_based", "min_risk_score")
    /\ Len(filters) = 2
    /\ filters[1].is_active
    /\ Len(Preceding.filtered.rows) = 2
    /\ Len(f_kept.rows) = 1
    /\ Len(f_removed.rows) = 1
    /\ f_kept.rows[1]["relevance_score"] >= 400
    /\ f_removed.rows[1]["relevance_score"] < 400

\* C20: an active frequency-based filter counts, per a_party, the records
\* of the current kept set (what the filters before it left) and keeps
\* exactly the records whose a_party has at least min_connections of them;
\* the others go to removed.
C20_FrequencyFilterCountsCurrentKeptSet ==
    LastFilterIs("frequency_based", "min_connections") =>
        LET current == Preceding.filtered.rows
            Count(party) == Cardinality({j \in 1..Len(current) : current[j]["a_party"] = party})
            Passes(i) == Count(current[i]["a_party"])
                             >= Get(LastFilter.criteria, "min_connections")
        IN  StageSplits(SelectSeq([i \in 1..Len(current) |-> i], Passes))

\* Two records of one a_party; the risk filter before has removed one of
\* them, so the frequency filter counts one record and removes the other.
C20_Witness_CountAfterRiskFilter ==
    /\ LastFilterIs("frequency_based", "min_connections")
    /\ Len(filters) = 2
    /\ filters[1].is_active
    /\ Len(NoiseReducedInput.rows) = 2
    /\ NoiseReducedInput.rows[1]["a_party"] = NoiseReducedInput.rows[2]["a_party"]
    /\ Get(LastFilter.criteria, "min_connections") = 2
    /\ Len(Preceding.filtered.rows) = 1
    /\ Len(f_kept.rows) = 0
    /\ Len(f_removed.rows) = 2

\* C21: an active custom filter keeps a record of the current kept set
\* exactly when it passes the condition of every (column, condition) item
\* of its criteria: equality with a scalar, an inclusive min..max range, or
\* membership in a list of values; a record that fails the condition of any
\* listed column is in removed exactly once.
C21_CustomFilterKeepsRecordsPassingEveryCondition ==
    (LastFilterIs("custom", "service_type") /\ ~FilterRaises(Preceding.filtered, LastFilter)) =>
        LET current == CoreRows(Preceding.filtered)
            criteria == LastFilter.criteria
            Satisfies(row, k) ==
                LET value == row[criteria[k][1]]
                    condition == criteria[k][2]
                IN  \/ condition.test = "scalar" /\ value = condition.value
                    \/ condition.test = "range" /\ value # NaN
                           /\ condition.min <= value /\ value <= condition.max
                    \/ condition.test = "values" /\ value \in condition.values
            PassesAll(row) == \A k \in 1..Len(criteria) : Satisfies(row, k)
            failing == {i \in 1..Len(current) : ~PassesAll(current[i])}
            removed == CoreRows(f_removed)
            before == Len(Preceding.removed.rows)
        IN  /\ CoreRows(f_unsorted) = SelectSeq(current, PassesAll)
            /\ SubSeq(removed, 1, before) = CoreRows(Preceding.removed)
            /\ Len(removed) = before + Cardinality(failing)
            /\ \A i \in failing :
                  Cardinality({j \in 1..Len(removed) : j > before /\ removed[j] = current[i]})
                      = Cardinality({j \in failing : current[j] = current[i]})

\* Of two records the custom filter with a list of values, a range and a
\* scalar keeps the one that passes the three conditions; the other fails
\* both the list and the range and is in removed once.
C21_Witness_FailsTwoConditionsRemovedOnce ==
    /\ LastFilterIs("custom", "service_type")
    /\ Len(filters) = 1
    /\ Len(LastFilter.criteria) = 3
    /\ ~FilterRaises(Preceding.filtered, LastFilter)
    /\ Len(Preceding.filtered.rows) = 2
    /\ \E i \in 1..2 :
          /\ Preceding.filtered.rows[i]["service_type"] = "SMS"
          /\ Preceding.filtered.rows[i]["duration"] = 1000
    /\ Len(f_kept.rows) = 1
    /\ f_kept.rows[1]["service_type"] = "VOICE"
    /\ Len(f_removed.rows) = 1

----------------------------------------------------------------------------
(* Claims about the stages of the Noise Reducer (specification SpecNoise)  *)

\* The other stages of the Noise Reducer keep the row
OtherStagesKeep(df, row) ==
    /\ "service_type" \in df.cols => row["service_type"] \in ValidServiceTypes
    /\ ~MatchesNoisePattern(row)
    /\ ~IsPrivateIp(Str(row["b_party"]))

\* C23: the duration-bounds stage drops a record only when the record has a
\* duration and it lies outside [1, 3600]: a record that has no duration
\* value, or a duration within the bounds, and that the other stages keep
\* is among the noise-reduced records.
C23_DurationStageDropsOnlyOutOfBounds ==
    n_pc # "start" =>
        \A i \in 1..Len(n_df.rows) :
            LET row == n_df.rows[i]
                no_value == "duration" \notin n_df.cols \/ row["duration"] = NaN
                in_bounds == "duration" \in n_df.cols /\ row["duration"] # NaN
                                /\ 1 <= row["duration"] /\ row["duration"] <= 3600
            IN  ((no_value \/ in_bounds) /\ OtherStagesKeep(n_df, row)) =>
                    row \in RowSet(n_once.rows)

----------------------------------------------------------------------------
(* Claims about the result of apply_filters (specification SpecFilter)     *)

\* The number of rows of the frame that are this record
Occurrences(frame, record) ==
    Cardinality({i \in 1..Len(frame.rows) : CoreRows(frame)[i] = record})

\* No stage of the call raises: neither the Noise Reducer nor a filter
NoStageRaises ==
    /\ ~NoiseReductionRaises(ScoredFrames[f_input, f_context])
    /\ \A n \in 1..Len(filters) :
          filters[n].is_active =>
              ~FilterRaises(FilterLoop(NoiseReducedInput, filters, n - 1).filtered, filters[n])

----------------------------------------------------------------------------
(* Claims about repeated calls on one analyzer (specification SpecReload)  *)

ReloadIdentifiers == {Str(Party551), Str(Party552), Str(Party553)}

\* The weight and the total duration of the edge {a,b} of a graph, 0 when
\* the graph has no such edge
WeightOf(graph, a, b) ==
    IF {a, b} \in DOMAIN graph.edges THEN graph.edges[{a, b}].weight ELSE 0
TotalDurationOf(graph, a, b) ==
    IF {a, b} \in DOMAIN graph.edges THEN graph.edges[{a, b}].total_duration ELSE 0

\* C25: the graph is never reset.  Every extract_relationships call adds to
\* the weight of each edge {a,b} the number of records linking a and b in
\* the data loaded at that call, and their durations to total_duration, so
\* a weight is the sum of these numbers over all the calls and a second
\* extraction of the same data doubles it; parse_ipdr_file leaves the
\* graph as it is, so the edges of a file loaded before remain.
C25_GraphAccumulatesAcrossCalls ==
    [][a_calls' # a_calls =>
          IF a_last' = "extract" /\ data # None
          THEN \A a, b \in ReloadIdentifiers :
                  /\ WeightOf(network_graph', a, b)
                         = WeightOf(network_graph, a, b) + Cardinality(RecordsBetween(a, b))
                  /\ TotalDurationOf(network_graph', a, b)
                         = TotalDurationOf(network_graph, a, b)
                              + SumOfDurations(RecordsBetween(a, b))
          ELSE network_graph' = network_graph]_vars

\* The file with two records between 551 and 552 was extracted, then the
\* file with a record between 553 and 552 was parsed and extracted twice:
\* the first edge is still there with weight 2, the second has weight 2
\* and total duration 800 from a single record.
C25_Witness_OldEdgeKeptNewEdgeDoubled ==
    /\ a_last = "extract"
    /\ a_runs = 3
    /\ Len(data.rows) = 1
    /\ Str(data.rows[1]["a_party"]) = Str(Party553)
    /\ WeightOf(network_graph, Str(Party551), Str(Party552)) = 2
    /\ TotalDurationOf(network_graph, Str(Party551), Str(Party552)) = 5
    /\ WeightOf(network_graph, Str(Party553), Str(Party552)) = 2
    /\ TotalDurationOf(network_graph, Str(Party553), Str(Party552)) = 800

----------------------------------------------------------------------------
(* Claims about apply_filters without a context (specification SpecFilter) *)

\* The list has an active risk filter whose min_risk_score is a number
\* above 45
HasRiskFilterAbove45 ==
    \E n \in 1..Len(filters) :
        /\ filters[n].is_active
        /\ filters[n].filter_type = "risk_based"
        /\ HasKey(filters[n].criteria, "min_risk_score")
        /\ Get(filters[n].criteria, "min_risk_score") # BadValue
        /\ Get(filters[n].criteria, "min_risk_score") > 45

----------------------------------------------------------------------------
(* Claims about the filter list and its configuration file                 *)
(* (specification SpecConfig)                                              *)

\* The names of the templates the system is built with
KnownTemplates ==
    {"law_enforcement_critical", "suspicious_activity", "network_analysis",
     "time_based_analysis"}

\* C27: the filter list holds its entries in insertion order with no
\* de-duplication.  add_filter, and apply_template of a known name, append
\* one entry each, so n calls with one template give n entries;
\* apply_template of an unknown name returns False and leaves the list
\* unchanged; remove_filter(name) deletes only the first entry with that
\* name and returns True, or returns False and leaves the list unchanged
\* when no entry has it.
C27_ListInInsertionOrderNoDeduplication ==
    [][LET before == Len(filters)
           name == f_call'.arg
           named == {i \in 1..before : filters[i].name = name}
       IN  CASE f_call'.op = "add_filter" ->
                   /\ Len(filters') = before + 1
                   /\ SubSeq(filters', 1, before) = filters
                   /\ filters'[before + 1].name = name
             [] f_call'.op = "apply_template" ->
                   IF name \in KnownTemplates
                   THEN /\ f_call'.returned = "True"
                        /\ Len(filters') = before + 1
                        /\ SubSeq(filters', 1, before) = filters
                        /\ filters'[before + 1] = FilterTemplate(name)
                   ELSE /\ f_call'.returned = "False"
                        /\ filters' = filters
             [] f_call'.op = "remove_filter" ->
                   IF named = {}
                   THEN /\ f_call'.returned = "False"
                        /\ filters' = filters
                   ELSE /\ f_call'.returned = "True"
                        /\ Len(filters') = before - 1
                        /\ \A i \in 1..(before - 1) :
                              filters'[i] = IF \E k \in named : k <= i
                                            THEN filters[i + 1] ELSE filters[i]
             [] OTHER -> TRUE]_vars

\* The list held two entries named 'Suspicious Activity', the template
\* first and the caller's inactive filter second: remove_filter took the
\* first and left the second.
C27_Witness_SecondEntryOfTheNameRemains ==
    /\ f_call = [op |-> "remove_filter", arg |-> "Suspicious Activity", returned |-> "True"]
    /\ Len(filters) = 1
    /\ filters[1].name = "Suspicious Activity"
    /\ ~filters[1].is_active

\* An entry of the file cannot be made a filter
Malformed(entry) ==
    \/ \E key \in {"name", "filter_type", "priority", "criteria", "weight", "description",
                   "is_active"} : key \notin DOMAIN entry
    \/ entry["filter_type"].value \notin
          {"time_based", "frequency_based", "pattern_based", "risk_based", "custom"}
    \/ entry["priority"].value \notin {"critical", "high", "medium", "low", "info"}

\* The filter has the name, filter type, priority, criteria, weight,
\* description and active flag the entry gives
SameAsEntry(f, entry) ==
    /\ f.name = entry["name"]
    /\ f.filter_type = entry["filter_type"].value
    /\ f.priority = entry["priority"].value
    /\ f.criteria = entry["criteria"]
    /\ f.weight = entry["weight"]
    /\ f.description = entry["description"]
    /\ f.is_active = entry["is_active"]

\* C28: load_filter_configuration keeps the previous list only when the
\* file cannot be opened or decoded: it then returns False and the list is
\* unchanged.  When the file decodes but an entry is malformed, it returns
\* False with the previous filters cleared, and the list holds exactly the
\* entries that preceded the malformed one.
C28_FailedLoadKeepsListOnlyIfUndecodable ==
    [][f_call'.op = "load_filter_configuration" =>
          LET entries == config_file.filters
              malformed == {i \in 1..Len(entries) : Malformed(entries[i])}
              first == CHOOSE i \in malformed : \A j \in malformed : i <= j
          IN  IF config_file.kind \in {"missing", "garbage"}
              THEN f_call'.returned = "False" /\ filters' = filters
              ELSE malformed # {} =>
                      /\ f_call'.returned = "False"
                      /\ Len(filters') = first - 1
                      /\ \A i \in 1..(first - 1) : SameAsEntry(filters'[i], entries[i])]_vars

\* The file has a good entry, an entry whose filter_type is no value of
\* the enum, and a good entry: the load returned False and the list holds
\* the first entry only.
C28_Witness_ListCutAtMalformedEntry ==
    /\ f_call.op = "load_filter_configuration"
    /\ f_call.returned = "False"
    /\ config_file.kind = "object"
    /\ Len(config_file.filters) = 3
    /\ Malformed(config_file.filters[2])
    /\ Len(filters) = 1
    /\ filters[1].name = "Network Analysis"

\* C29: save_filter_configuration followed by load_filter_configuration of
\* the same file restores the filter list: the same length and order, and
\* every entry with the same name, filter type, priority, criteria, weight,
\* description and active flag, whatever the list held before the load.
C29_SaveThenLoadRestoresList ==
    (f_call.op = "load_filter_configuration" /\ saved_filters.written) =>
        /\ f_call.returned = "True"
        /\ Len(filters) = Len(saved_filters.filters)
        /\ \A i \in 1..Len(filters) :
              /\ filters[i].name = saved_filters.filters[i].name
              /\ filters[i].filter_type = saved_filters.filters[i].filter_type
              /\ filters[i].priority = saved_filters.filters[i].priority
              /\ filters[i].criteria = saved_filters.filters[i].criteria
              /\ filters[i].weight = saved_filters.filters[i].weight
              /\ filters[i].description = saved_filters.filters[i].description
              /\ filters[i].is_active = saved_filters.filters[i].is_active

\* A list of a custom filter with three conditions and an inactive filter
\* was saved, and the load gave these two entries back in that order.
C29_Witness_TwoEntriesRestored ==
    /\ f_call.op = "load_filter_configuration"
    /\ f_call.returned = "True"
    /\ saved_filters.written
    /\ Len(filters) = 2
    /\ filters[1].filter_type = "custom"
    /\ Len(filters[1].criteria) = 3
    /\ ~filters[2].is_active
    /\ filters[2].filter_type = "time_based"

----------------------------------------------------------------------------
(* Claims about the order of the filters and a second call                 *)
(* (specification SpecFilter)                                              *)

\* No active filter of the list is a frequency-based filter
NoActiveFrequencyFilter ==
    \A n \in 1..Len(filters) :
        filters[n].is_active => filters[n].filter_type # "frequency_based"

\* No active filter raises on the records of the call, in whatever order
\* the filters are applied
NoFilterRaises ==
    \A n \in 1..Len(filters) :
        filters[n].is_active => ~FilterRaises(NoiseReducedInput, filters[n])

\* The records kept when the filters are applied in the order p
KeptInOrder(p) ==
    RowSet(CoreRows(
        FilterLoop(NoiseReducedInput, [i \in 1..Len(filters) |-> filters[p[i]]],
                   Len(filters)).filtered))

====
